---- MODULE Spec2Model ----
(***************************************************************************)
(* Feedback pipeline of ganz677/wb: ingestion (live and archive) into the  *)
(* feedbacks table, answer generation, delivery to the marketplace and the *)
(* requeue tool.  One pipeline process works on one database session; the  *)
(* marketplace and the generation backend are inputs.                      *)
(*                                                                         *)
(* Encodings.  An Optional[x] is a sequence of length 0 (None) or 1.       *)
(* Times are integers (hours); a datetime is [t, tz] with tz an optional   *)
(* UTC offset.  A text made of lines is a sequence of Line records.        *)
(* Cyrillic literals of the source are transliterated to ASCII.            *)
(***************************************************************************)
EXTENDS Integers, Sequences, FiniteSets, TLC

None == <<>>
Some(x) == <<x>>
IsNone(o) == o = <<>>
Val(o) == o[1]

Min(a, b) == IF a < b THEN a ELSE b
Max(a, b) == IF a > b THEN a ELSE b

(***************************************************************************)
(* Bounds of the model.                                                    *)
(***************************************************************************)
\* settings.api_keys.TAKE, the configured page size
Take == 2
\* longest marketplace list served to one ingestion pass
MaxUpstream == 3

(***************************************************************************)
(* Program constants.                                                      *)
(***************************************************************************)
\* min(int(take_cfg), 5000)
MaxTake == 5000
\* timedelta(days=7), in hours
WindowHours == 168
\* k=3 recommendations
RecoK == 3

(***************************************************************************)
(* Timestamps.                                                             *)
(***************************************************************************)
\* the values datetime.now(timezone.utc) takes when an archive pass starts
Clock == {200}

\* raw createdDate strings of the marketplace, by what _ISO_RE finds in them
RawMissing == [kind |-> "missing", t |-> 0, tz |-> None]
RawGarbage == [kind |-> "garbage", t |-> 0, tz |-> None]
RawIso(t, tz) == [kind |-> "iso", t |-> t, tz |-> tz]

\* _iso_to_dt raises ValueError on a string fromisoformat cannot read
IsoParses(raw) == raw.kind = "iso"

\* _iso_to_dt: the datetime of a readable string; "Z" has become +00:00
\* already in the raw encoding, a string without offset stays naive
IsoToDt(raw) == [t |-> raw.t, tz |-> raw.tz]

\* created_dt.replace(tzinfo=utc) for a naive value, astimezone(utc) otherwise
ToUtc(dt) ==
    IF IsNone(dt.tz) THEN [t |-> dt.t, tz |-> Some(0)]
    ELSE [t |-> dt.t - Val(dt.tz), tz |-> Some(0)]

(***************************************************************************)
(* Marketplace records.  A record is one element of data.feedbacks in a    *)
(* response; the pools are the records the marketplace may list.           *)
(***************************************************************************)
Rec(id, text, rating, pname, nm, user, created, answer) ==
    [id |-> id, text |-> text, productValuation |-> rating,
     productName |-> pname, nmId |-> nm, userName |-> user,
     createdDate |-> created, answer |-> answer]

\* GET /feedbacks?isAnswered=false.  list_feedbacks hands on the response as
\* it comes, so a record of it may carry an answer
LivePool ==
    { Rec("f1", "", Some(5), "Vanille Intense", Some(101), Some("Anna"),
          RawIso(190, Some(0)), ""),
      Rec("f2", "ok", Some(5), "", Some(102), None,
          RawMissing, ""),
      Rec("f2", "Nice scent", Some(3), "Oud Royal", Some(103), None,
          RawIso(190, None), "Thanks"),
      Rec("f1", "Nice scent", Some(3), "", Some(102), None,
          RawGarbage, ""),
      Rec("", "Nice scent", Some(5), "Oud Royal", Some(103), None,
          RawIso(190, Some(0)), "") }

\* GET /feedbacks/archive; with Clock = {200} the cutoff is 32
ArchivePool ==
    { Rec("f2", "Nice scent", Some(5), "Vanille Intense", Some(101), Some("Anna"),
          RawIso(100, Some(0)), ""),
      Rec("f1", "Nice scent", None, "Oud Royal", Some(103), None,
          RawIso(32, None), " "),
      Rec("f2", "ok", Some(5), "", Some(102), None,
          RawIso(100, Some(0)), "Thanks"),
      Rec("f1", "", Some(3), "Vanille Intense", Some(101), None,
          RawIso(33, Some(3)), ""),
      Rec("", "Nice scent", Some(5), "Oud Royal", Some(103), None,
          RawIso(100, Some(0)), ""),
      Rec("f2", "Nice scent", Some(3), "", Some(102), None,
          RawGarbage, "") }

SeqsUpTo(S, n) == UNION { [1..k -> S] : k \in 0..n }

LiveLists == SeqsUpTo(LivePool, MaxUpstream)
ArchiveLists == SeqsUpTo(ArchivePool, MaxUpstream)
\* every caller leaves order at its default
Orders == {"dateDesc"}

\* str.strip() on the texts of the model
Strip(s) ==
    CASE s = " " -> ""
      [] s = " Oud Royal " -> "Oud Royal"
      [] OTHER -> s

(***************************************************************************)
(* State.                                                                  *)
(***************************************************************************)
VARIABLES
    store,          \* committed rows of table feedbacks, in storage order
    op,             \* the pipeline function running: idle, ingest, archive, ...
    pc,             \* its position
    upstream,       \* the list the marketplace serves to the running pass
    order,          \* parameter order of ingest_feedbacks_archive
    skip, items, i, \* page offset, current page, index of the next record
    pending,        \* rows added to the session and not yet committed
    inserted,       \* local inserted
    page_all_older, \* local page_all_older
    cutoff,         \* local cutoff
    ret,            \* how the last pass ended and what it returned
    store0,         \* the store when the running (or last) pass began
    rerun,          \* the pass directly repeats the pass before it
    queue, qi,      \* rows the SELECT of the pass returned, index of the next
    made_fb,        \* local made_fb
    retry_after_max,\* local retry_after_max
    sent_fb,        \* local sent_fb
    attempts,       \* what the pass did with each row it took from the queue
    prev_failed,    \* rows the pass before this one left without an answer
    hash_seed,      \* the hash randomisation of the process, once it is used
    sim_call,       \* arguments of a call of similar_titles
    sim_out,        \* what the call returned, once it has
    attempt,        \* local attempt of generate_content
    fallback_models,\* the module's list FALLBACK_MODELS
    gc_pc,          \* position in generate_content
    gc_ret,         \* how generate_content ended
    gc_log,         \* backend calls and sleeps of the running generate_content
    tokens,         \* the credentials get_gemini_tokens returns
    runs,           \* every pipeline run: where it is and the calls it has made
    rate_last_ago,  \* time since rate._last, in sixths of a second
    http,           \* the WBClient operation in progress
    wire,           \* time since the last HTTP request, and how that request was sent
    requeue,        \* arguments of the last run of the requeue tool and the rows it matched
    dirty,          \* rows the session has changed and not committed
    env,            \* configuration of the process that runs the generation pass
    pure_call,      \* arguments of a call of a helper of make_answer
    pure_out,       \* what the call returned, None before it returns
    sheet,          \* what the catalog source holds now
    catalog,        \* the module globals of catalog.py: the cache and the reads that filled it
    cat_ret,        \* the last call of load_available and what it gave
    questions,      \* the questions table
    qrun,           \* the pass that works on the questions table, and where it is
    worker,         \* the loop of a generation worker: which loop, where it is, the passes it has made
    deliv           \* the feedbacks table, the delivery processes and the POSTs the marketplace has received

ingestVars == <<upstream, order, skip, items, i, pending, inserted,
                page_all_older, cutoff>>
passVars == <<queue, qi, made_fb, retry_after_max, sent_fb, attempts,
              prev_failed, hash_seed>>
pipeVars == <<store, op, pc, ret, store0, rerun, ingestVars, passVars>>
simVars == <<sim_call, sim_out>>
adapterVars == <<attempt, fallback_models, gc_pc, gc_ret, gc_log>>
runVars == <<tokens, runs>>
rateVars == <<rate_last_ago, http, wire>>
toolVars == <<requeue>>
sessVars == <<dirty>>
procVars == <<env>>
pureVars == <<pure_call, pure_out>>
catVars == <<sheet, catalog, cat_ret>>
questVars == <<questions, qrun>>
workVars == <<worker>>
delivVars == <<deliv>>
\* state outside the pipeline functions
extVars == <<simVars, adapterVars, runVars, rateVars, toolVars, sessVars, procVars, pureVars, catVars, questVars, workVars, delivVars>>
vars == <<pipeVars, extVars>>

Ids(rows) == { rows[n].wb_id : n \in 1..Len(rows) }

\* session.scalar(select(Feedback).where(Feedback.wb_id == wb_id)); the
\* session is built with autoflush=False, so rows only added are not seen
Exists(wb_id) == wb_id \in Ids(store)

\* Feedback(...) as ingest_feedbacks builds it
LiveRow(f, now) ==
    [wb_id |-> f.id, nm_id |-> f.nmId, product_name |-> f.productName,
     text |-> f.text,
     created_at_wb |-> IF f.createdDate.kind = "missing"
                       THEN [t |-> now, tz |-> None]
                       ELSE IsoToDt(f.createdDate),
     username |-> f.userName, product_valuation |-> f.productValuation,
     status |-> "loaded", answer_text |-> None]

\* Feedback(...) as ingest_feedbacks_archive builds it
ArchiveRow(f, created_dt) ==
    [wb_id |-> f.id, nm_id |-> f.nmId, product_name |-> f.productName,
     text |-> f.text, created_at_wb |-> created_dt,
     username |-> f.userName, product_valuation |-> f.productValuation,
     status |-> "loaded", answer_text |-> None]

\* the unique constraint on wb_id, checked when the INSERTs are flushed
UniqueOk(rows) ==
    \A m, n \in 1..Len(rows) : m # n => rows[m].wb_id # rows[n].wb_id

\* client.list_feedbacks / list_feedbacks_archive: take records after skip
PageOf(list, take, sk) ==
    IF sk >= Len(list) THEN <<>>
    ELSE SubSeq(list, sk + 1, Min(sk + take, Len(list)))

\* the process has not hashed a string yet
NoSeed == 0 - 1

Running(o) == [op |-> o, how |-> "running", val |-> 0]
Returned(o, v) == [op |-> o, how |-> "returned", val |-> v]
\* the exception leaves the function; val is the count the pass had reached
Raised(o, e) == [op |-> o, how |-> e, val |-> 0]

\* no pipeline function has run yet
PipeInit ==
    /\ store = <<>>
    /\ op = "idle"
    /\ pc = "idle"
    /\ upstream = <<>>
    /\ order = "dateDesc"
    /\ skip = 0
    /\ items = <<>>
    /\ i = 0
    /\ pending = <<>>
    /\ inserted = 0
    /\ page_all_older = TRUE
    /\ cutoff = 0
    /\ ret = Returned("none", 0)
    /\ store0 = <<>>
    /\ rerun = FALSE
    /\ queue = <<>>
    /\ qi = 0
    /\ made_fb = 0
    /\ retry_after_max = None
    /\ sent_fb = 0
    /\ attempts = <<>>
    /\ prev_failed = {}
    /\ hash_seed = NoSeed

\* no call of similar_titles outside generate_answers
SimIdle ==
    /\ sim_call = [query_title |-> "", catalog_titles |-> <<>>, k |-> 0]
    /\ sim_out = None

\* FALLBACK_MODELS as the module defines it
FallbackModels == <<"gemini-2.5-flash">>

\* no generate_content is running outside generate_answers
NoResult == [kind |-> "none", lines |-> <<>>, ra |-> None]
NoLog == [calls |-> 0, sleeps |-> <<>>, fallback0 |-> 0]

AdapterIdle ==
    /\ attempt = 0
    /\ fallback_models = FallbackModels
    /\ gc_pc = "idle"
    /\ gc_ret = NoResult
    /\ gc_log = NoLog

\* the three cron jobs of the scheduler and "python run_pipeline.py all"
Slots == {"slot1", "slot2", "slot3"}
Runs == Slots \cup {"cli"}

\* a run that has not started
NoCall == [how |-> "none", fb |-> 0, retry_after |-> None]
IdleRun == [pc |-> "idle", idx |-> 0, streak |-> 0, log |-> <<>>,
            last |-> NoCall, how |-> "none", token |-> None]

RunsIdle ==
    /\ tokens = <<>>
    /\ runs = [r \in Runs |-> IdleRun]

\* time differences are kept up to TimeCap sixths of a second
TimeCap == 3

\* no request has been sent yet: rate._last = 0.0
NoHttp == [op |-> "none", pc |-> "idle", attempt |-> 0, backoff |-> 0, how |-> "none",
           last |-> "none"]

RateIdle ==
    /\ rate_last_ago = TimeCap
    /\ http = NoHttp
    /\ wire = [gap |-> TimeCap, sent_gap |-> TimeCap, waited |-> TRUE]

\* the requeue tool has not run
NoRequeue == [mode |-> "none", kind |-> "none", matched |-> 0]

ToolIdle == requeue = NoRequeue

\* a new session holds no changes
SessIdle == dirty = {}

\* no process is running a generation pass
NoProcess == [token |-> "none", xlsx |-> "none"]

ProcIdle == env = NoProcess

\* no helper has been called
NoPure == [fn |-> "none"]

PureIdle == pure_call = NoPure /\ pure_out = None

\* the rows of the catalog sheet: id, title, words of the description
CatalogRows ==
    << [id |-> "101", title |-> "Vanille Intense", desc |-> {"vanilla", "warm", "sweet"}],
       [id |-> "102", title |-> "Rose Noir 50ml", desc |-> {"rose", "dark", "oud"}],
       [id |-> "103", title |-> "Oud Royal", desc |-> {"oud", "dark"}],
       [id |-> "104", title |-> "Amber Night", desc |-> {}],
       [id |-> "105", title |-> "Iris Bloom", desc |-> {"iris", "sweet"}] >>

\* the sheet at ARMOULE_CATALOG_XLSX
SheetOf(state, rows) == [state |-> state, rows |-> rows]

\* _cache_map and _cache_titles are None, nothing was read
NoCatalog == [cache |-> None, reads |-> 0, matrix |-> "unset"]

NoCatCall == [by |-> "none", how |-> "none", val |-> None]

\* a new process next to the catalog sheet
CatIdle ==
    /\ sheet = SheetOf("ok", CatalogRows)
    /\ catalog = NoCatalog
    /\ cat_ret = NoCatCall

\* no pass has touched the questions table
NoQRun == [op |-> "idle", pc |-> "idle", queue |-> <<>>, qi |-> 0, made_q |-> 0,
           how |-> "none"]

QuestIdle == questions = <<>> /\ qrun = NoQRun

\* no generation loop runs
NoWorker == [loop |-> "none", pc |-> "idle", how |-> "none", passes |-> 0, e0 |-> 0]

WorkIdle == worker = NoWorker

\* no delivery process has started
NoDelivery == [rows |-> <<>>, procs |-> <<>>, posted |-> <<>>]

DelivIdle == deliv = NoDelivery

ExtIdle ==
    /\ SimIdle
    /\ AdapterIdle
    /\ RunsIdle
    /\ RateIdle
    /\ ToolIdle
    /\ SessIdle
    /\ ProcIdle
    /\ PureIdle
    /\ CatIdle
    /\ QuestIdle
    /\ WorkIdle
    /\ DelivIdle

Init ==
    /\ PipeInit
    /\ ExtIdle

(***************************************************************************)
(* ingest_feedbacks                                                        *)
(***************************************************************************)
\* locals of ingest_feedbacks at entry
EnterIngest(u, again) ==
    /\ op' = "ingest"
    /\ pc' = "fetch"
    /\ rerun' = again
    /\ upstream' = u
    /\ skip' = 0
    /\ inserted' = 0
    /\ items' = <<>>
    /\ i' = 0
    /\ pending' = <<>>
    /\ store0' = store
    /\ ret' = Running("ingest")
    /\ UNCHANGED <<store, order, page_all_older, cutoff, passVars>>

StartIngest(u) ==
    /\ op = "idle"
    /\ UNCHANGED extVars
    /\ EnterIngest(u, FALSE)

\* the caller runs ingest_feedbacks once more while the marketplace list
\* has not changed
IngestAgain ==
    /\ op = "ingest" /\ pc = "done"
    /\ UNCHANGED extVars
    /\ ret.how = "returned"
    /\ ~rerun
    /\ EnterIngest(upstream, TRUE)

\* the pass leaves the function: locals are dead
Leave(r) ==
    /\ op' = op
    /\ pc' = "done"
    /\ ret' = r
    /\ skip' = 0
    /\ items' = <<>>
    /\ i' = 0
    /\ pending' = <<>>
    /\ inserted' = 0
    /\ page_all_older' = TRUE
    /\ cutoff' = 0
    /\ order' = "dateDesc"

\* data = client.list_feedbacks(...); if not items: break
IngestFetch ==
    /\ op = "ingest" /\ pc = "fetch"
    /\ UNCHANGED extVars
    /\ UNCHANGED passVars
    /\ LET page == PageOf(upstream, Take, skip) IN
       IF page = <<>>
       THEN /\ Leave(Returned("ingest", inserted))
            /\ UNCHANGED <<store, store0, upstream, rerun>>
       ELSE /\ items' = page
            /\ i' = 1
            /\ pc' = "item"
            /\ UNCHANGED <<store, op, ret, store0, upstream, order, skip,
                           pending, inserted, page_all_older, cutoff, rerun>>

\* one iteration of "for f in items"
IngestItem ==
    /\ op = "ingest" /\ pc = "item"
    /\ UNCHANGED extVars
    /\ UNCHANGED passVars
    /\ LET f == items[i]
           next == IF i = Len(items) THEN "commit" ELSE "item" IN
       IF f.id = "" \/ Exists(f.id)
       THEN /\ i' = i + 1
            /\ pc' = next
            /\ UNCHANGED <<store, op, ret, store0, upstream, order, skip, items,
                           pending, inserted, page_all_older, cutoff, rerun>>
       ELSE IF f.createdDate.kind # "missing" /\ ~IsoParses(f.createdDate)
       THEN \* _iso_to_dt raises; get_session rolls the page back
            /\ Leave(Raised("ingest", "ValueError"))
            /\ UNCHANGED <<store, store0, upstream, rerun>>
       ELSE \E now \in Clock :
            /\ pending' = Append(pending, LiveRow(f, now))
            /\ inserted' = inserted + 1
            /\ i' = i + 1
            /\ pc' = next
            /\ UNCHANGED <<store, op, ret, store0, upstream, order, skip, items,
                           page_all_older, cutoff, rerun>>

\* a table without the unique constraint accepts every flush
CommitWithNoConstraint(rows) == TRUE

\* session.commit() flushes the pending INSERTs
CommitWith(rows) == UniqueOk(store \o rows)

\* session.commit(); skip += take
IngestCommit ==
    /\ op = "ingest" /\ pc = "commit"
    /\ UNCHANGED extVars
    /\ UNCHANGED passVars
    /\ IF CommitWith(pending)
       THEN /\ store' = store \o pending
            /\ pending' = <<>>
            /\ skip' = skip + Take
            /\ items' = <<>>
            /\ i' = 0
            /\ pc' = "fetch"
            /\ UNCHANGED <<op, ret, store0, upstream, order, inserted,
                           page_all_older, cutoff, rerun>>
       ELSE /\ Leave(Raised("ingest", "IntegrityError"))
            /\ UNCHANGED <<store, store0, upstream, rerun>>

(***************************************************************************)
(* ingest_feedbacks_archive                                                *)
(***************************************************************************)
\* take = min(int(take_cfg), 5000)
ArchiveTake == Min(Take, MaxTake)

StartArchive(u, now, ord) ==
    /\ op = "idle"
    /\ UNCHANGED extVars
    /\ op' = "archive"
    /\ pc' = "fetch"
    /\ upstream' = u
    /\ order' = ord
    /\ cutoff' = now - WindowHours
    /\ skip' = 0
    /\ inserted' = 0
    /\ items' = <<>>
    /\ i' = 0
    /\ pending' = <<>>
    /\ page_all_older' = TRUE
    /\ store0' = store
    /\ rerun' = FALSE
    /\ ret' = Running("archive")
    /\ UNCHANGED <<store, passVars>>

ArchiveFetch ==
    /\ op = "archive" /\ pc = "fetch"
    /\ UNCHANGED extVars
    /\ UNCHANGED passVars
    /\ LET page == PageOf(upstream, ArchiveTake, skip) IN
       IF page = <<>>
       THEN /\ Leave(Returned("archive", inserted))
            /\ UNCHANGED <<store, store0, upstream, rerun>>
       ELSE /\ items' = page
            /\ i' = 1
            /\ pc' = "item"
            /\ page_all_older' = TRUE
            /\ UNCHANGED <<store, op, ret, store0, upstream, order, skip,
                           pending, inserted, cutoff, rerun>>

\* the window test on the local time, without the conversion to UTC
InWindowLocalTime(f, cut) ==
    /\ Strip(f.answer) = ""
    /\ f.createdDate.kind = "iso"
    /\ IsoToDt(f.createdDate).t >= cut

\* the record passes the checks made before page_all_older is cleared
InWindow(f, cut) ==
    /\ Strip(f.answer) = ""
    /\ f.createdDate.kind = "iso"
    /\ ToUtc(IsoToDt(f.createdDate)).t >= cut

\* one iteration of "for f in items"
ArchiveItem ==
    /\ op = "archive" /\ pc = "item"
    /\ UNCHANGED extVars
    /\ UNCHANGED passVars
    /\ LET f == items[i]
           created_dt == ToUtc(IsoToDt(f.createdDate))
           add == InWindow(f, cutoff) /\ f.id # "" /\ ~Exists(f.id) IN
       /\ page_all_older' = (page_all_older /\ ~InWindow(f, cutoff))
       /\ pending' = IF add THEN Append(pending, ArchiveRow(f, created_dt))
                     ELSE pending
       /\ inserted' = IF add THEN inserted + 1 ELSE inserted
       /\ i' = i + 1
       /\ pc' = IF i = Len(items) THEN "commit" ELSE "item"
       /\ UNCHANGED <<store, op, ret, store0, upstream, order, skip, items,
                      cutoff, rerun>>

\* session.commit(); skip += len(items); early exit on an all-older page
ArchiveCommit ==
    /\ op = "archive" /\ pc = "commit"
    /\ UNCHANGED extVars
    /\ UNCHANGED passVars
    /\ IF ~CommitWith(pending)
       THEN /\ Leave(Raised("archive", "IntegrityError"))
            /\ UNCHANGED <<store, store0, upstream, rerun>>
       ELSE IF order = "dateDesc" /\ page_all_older
       THEN /\ store' = store \o pending
            /\ Leave(Returned("archive", inserted))
            /\ UNCHANGED <<store0, upstream, rerun>>
       ELSE /\ store' = store \o pending
            /\ pending' = <<>>
            /\ skip' = skip + Len(items)
            /\ items' = <<>>
            /\ i' = 0
            /\ pc' = "fetch"
            /\ UNCHANGED <<op, ret, store0, upstream, order, inserted,
                           page_all_older, cutoff, rerun>>

IngestSteps ==
    \/ IngestAgain
    \/ IngestFetch
    \/ IngestItem
    \/ IngestCommit
    \/ ArchiveFetch
    \/ ArchiveItem
    \/ ArchiveCommit

(***************************************************************************)
(* Strings.  str.lower() and the title normalisation are given on the      *)
(* strings of the model.                                                   *)
(***************************************************************************)
Lower(s) ==
    CASE s = "Vanille Intense" -> "vanille intense"
      [] s = "Rose Noir 50ml" -> "rose noir 50ml"
      [] s = "Oud Royal" -> "oud royal"
      [] s = "OUD ROYAL" -> "oud royal"
      [] s = "Amber Night" -> "amber night"
      [] s = "Iris Bloom" -> "iris bloom"
      [] s = "Nice scent" -> "nice scent"
      [] s = "Otzyv bez teksta." -> "otzyv bez teksta."
      [] s = "Otzyv bez teksta. Ocenka: 5/5." -> "otzyv bez teksta. ocenka: 5/5."
      [] s = "Otzyv bez teksta. Ocenka: 5/5. Pokupatel: Anna." ->
             "otzyv bez teksta. ocenka: 5/5. pokupatel: anna."
      [] OTHER -> s

\* _normalize_title: lower, drop "<digits> ml", collapse whitespace
NormalizeTitle(s) ==
    IF Lower(s) = "rose noir 50ml" THEN "rose noir" ELSE Lower(s)

(***************************************************************************)
(* Catalog (app/clients/catalog.py).  The sheet is read once per process;  *)
(* rows are [id, title, desc] as _df_cache keeps them.                     *)
(***************************************************************************)
\* titles_pool: sorted(set(mapping.values()), key=str.lower)
AvailableTitles ==
    <<"Amber Night", "Iris Bloom", "Oud Royal", "Rose Noir 50ml", "Vanille Intense">>

\* name_by_nm_id: mapping.get(str(nm_id)); None for an unknown id
NameByNmId(nm_id) ==
    IF IsNone(nm_id) THEN None
    ELSE LET hits == { n \in 1..Len(CatalogRows) :
                         CatalogRows[n].id = ToString(Val(nm_id)) } IN
         IF hits = {} THEN None
         ELSE Some(CatalogRows[CHOOSE n \in hits : \A m \in hits : m <= n].title)

\* cosine similarity of two descriptions, in thousandths; term sets stand
\* for the TF-IDF vectors
DescSim(a, b) ==
    IF a = {} \/ b = {} THEN 0
    ELSE (Cardinality(a \cap b) * Cardinality(a \cap b) * 1000)
            \div (Cardinality(a) * Cardinality(b))

\* _tokens of a normalised title: words without stop words and brand words
Tokens(t) ==
    CASE t = "vanille intense" -> {"vanille", "intense"}
      [] t = "rose noir" -> {"rose", "noir"}
      [] t = "oud royal" -> {"oud", "royal"}
      [] t = "amber night" -> {"amber", "night"}
      [] t = "iris bloom" -> {"iris", "bloom"}
      [] OTHER -> {}

RECURSIVE SumLen(_)
SumLen(ws) ==
    IF ws = {} THEN 0
    ELSE LET w == CHOOSE x \in ws : TRUE IN Len(w) + SumLen(ws \ {w})

\* _score_titles in thousandths: 0.6 * Jaccard + 0.4 * ratio + 0.1 bonus;
\* the SequenceMatcher ratio 2*M/T counts the characters of shared words
ScoreTitles(a, b) ==
    LET an == NormalizeTitle(a)
        bn == NormalizeTitle(b)
        ta == Tokens(an)
        tb == Tokens(bn)
        j == IF ta = {} \/ tb = {} THEN 0
             ELSE (Cardinality(ta \cap tb) * 1000) \div Cardinality(ta \cup tb)
        ratio == IF an = bn THEN 1000
                 ELSE IF Len(an) + Len(bn) = 0 THEN 1000
                 ELSE (2000 * SumLen(ta \cap tb)) \div (Len(an) + Len(bn))
        bonus == IF ta \cap tb # {} THEN 100 ELSE 0
    IN (600 * j + 400 * ratio) \div 1000 + bonus

\* indices ordered by descending score.  scored.sort(reverse=True) keeps
\* list order among equal scores; np.argsort(sims)[::-1] reverses it
RECURSIVE RankDesc(_, _, _)
RankDesc(idx, score, reversed) ==
    IF idx = {} THEN <<>>
    ELSE LET best == CHOOSE n \in idx :
                        \A m \in idx :
                            \/ score[n] > score[m]
                            \/ score[n] = score[m] /\ (IF reversed THEN n >= m ELSE n <= m)
         IN <<best>> \o RankDesc(idx \ {best}, score, reversed)

\* the two result loops of similar_titles: skip what skipIt rejects, drop
\* case-insensitive repeats, append, stop once len(out) >= k
RECURSIVE TakeDistinct(_, _, _, _)
TakeDistinct(cands, out, seen, k) ==
    IF cands = <<>> THEN out
    ELSE LET t == Head(cands)
             key == Lower(Strip(t)) IN
         IF key = "" \/ key \in seen
         THEN TakeDistinct(Tail(cands), out, seen, k)
         ELSE IF Len(out) + 1 >= k THEN Append(out, t)
         ELSE TakeDistinct(Tail(cands), Append(out, t), seen \cup {key}, k)

\* similar_titles(query_title, catalog_titles, k)
SimilarTitles(query_title, catalog_titles, k) ==
    IF query_title = "" \/ catalog_titles = <<>> THEN <<>>
    ELSE
    LET qn == NormalizeTitle(query_title)
        q_mask == { n \in 1..Len(CatalogRows) :
                      Lower(Strip(CatalogRows[n].title)) = Lower(Strip(query_title)) }
        q_row == CHOOSE n \in q_mask : \A m \in q_mask : n <= m
        NotQuery(t) == NormalizeTitle(t) # qn
    IN
    IF q_mask # {} /\ CatalogRows[q_row].desc # {}
    THEN LET sims == [n \in 1..Len(CatalogRows) |->
                        DescSim(CatalogRows[q_row].desc, CatalogRows[n].desc)]
             idx_all == RankDesc(1..Len(CatalogRows), sims, TRUE)
             titles == [n \in 1..Len(idx_all) |-> Strip(CatalogRows[idx_all[n]].title)]
         IN TakeDistinct(SelectSeq(titles, NotQuery), <<>>, {}, k)
    ELSE LET candidates == SelectSeq(catalog_titles, NotQuery)
             scores == [n \in 1..Len(candidates) |->
                          ScoreTitles(query_title, candidates[n])]
             order_ == RankDesc(1..Len(candidates), scores, FALSE)
             scored == [n \in 1..Len(order_) |-> candidates[order_[n]]]
         IN TakeDistinct(scored, <<>>, {}, k)

(***************************************************************************)
(* Texts of answers.  A text is a sequence of lines; a line is plain, a    *)
(* bullet with the product title it names, a bare number left over from a  *)
(* numbered list, or the lead sentence of a no-text reply.                 *)
(***************************************************************************)
Line(kind, t) == [kind |-> kind, s |-> t, v |-> 0]
Lead(product, idx) == [kind |-> "lead", s |-> product, v |-> idx]

\* line.strip() is empty
BlankLine(line) == line.kind = "plain" /\ Strip(line.s) = ""

\* "\n".join(lines).strip() is empty
BlankText(lines) == \A n \in 1..Len(lines) : BlankLine(lines[n])

\* text.strip(), line by line: the blank lines at both ends go
RECURSIVE StripText(_)
StripText(lines) ==
    IF lines = <<>> THEN <<>>
    ELSE IF BlankLine(Head(lines)) THEN StripText(Tail(lines))
    ELSE IF BlankLine(lines[Len(lines)]) THEN StripText(SubSeq(lines, 1, Len(lines) - 1))
    ELSE lines

\* len(_NO_TEXT_VARIANTS)
NumVariants == 8

\* the seeds str hashing may have in a process (PYTHONHASHSEED is not set)
HashSeeds == {0, 1}

\* abs(hash(s)) under a seed
StrHash(seed, t) == Len(t) * 31 + seed * 7

\* _surrogate_feedback_text
SurrogateFeedbackText(text, rating, username) ==
    IF Strip(text) # "" THEN Strip(text)
    ELSE "Otzyv bez teksta."
         \o (IF IsNone(rating) THEN ""
             ELSE " Ocenka: " \o ToString(Val(rating)) \o "/5.")
         \o (IF IsNone(username) \/ username = Some("") THEN ""
             ELSE " Pokupatel: " \o Val(username) \o ".")

\* AnswerInput
AnswerInput(kind, text, rating, product_name) ==
    [kind |-> kind, text |-> text, rating |-> rating, product_name |-> product_name]

NoTextMarkers == {"otzyv bez teksta.", "vopros bez teksta."}

\* _is_no_text_feedback
IsNoTextFeedback(inp) ==
    IF inp.kind # "feedback" THEN FALSE
    ELSE LET t == Lower(Strip(inp.text)) IN
         t = "" \/ t \in NoTextMarkers \/ Len(t) <= 2

\* push_many of _pick_recos
RECURSIVE PushMany(_, _, _, _)
PushMany(pool, out, excl, k) ==
    IF pool = <<>> THEN out
    ELSE LET t == Strip(Head(pool))
             key == Lower(t) IN
         IF t = "" \/ key \in excl \/ (\E n \in 1..Len(out) : key = Lower(out[n]))
         THEN PushMany(Tail(pool), out, excl, k)
         ELSE IF Len(out) + 1 >= k THEN Append(out, t)
         ELSE PushMany(Tail(pool), Append(out, t), excl, k)

\* _pick_recos with the general pool pushed first
PickRecosPoolFirst(preferred, available, exclude, k) ==
    LET excl == { Lower(Strip(exclude[n])) : n \in 1..Len(exclude) }
        first == PushMany(available, <<>>, excl, k)
        out == IF Len(first) < k THEN PushMany(preferred, first, excl, k) ELSE first
    IN SubSeq(out, 1, Min(k, Len(out)))

\* _pick_recos
PickRecos(preferred, available, exclude, k) ==
    LET excl == { Lower(Strip(exclude[n])) : n \in 1..Len(exclude) }
        first == PushMany(preferred, <<>>, excl, k)
        out == IF Len(first) < k THEN PushMany(available, first, excl, k) ELSE first
    IN SubSeq(out, 1, Min(k, Len(out)))

\* _render_no_text_reply
RenderNoTextReply(product, recos, seed) ==
    LET pr == Strip(product)
        idx == IF pr # "" THEN StrHash(seed, Lower(pr)) % NumVariants ELSE 0
        lead == Lead(IF pr # "" THEN pr ELSE "aromat", idx)
    IN <<lead>> \o [n \in 1..Len(recos) |-> Line("bullet", recos[n])]

\* _extract_title_from_bullet
ExtractTitleFromBullet(line) ==
    IF line.kind = "bullet" /\ Strip(line.s) # "" THEN Some(Strip(line.s)) ELSE None

\* the post-filter of make_answer: drop bullets that name an excluded or an
\* already named title
RECURSIVE FilterLines(_, _, _)
FilterLines(lines, exclude_lc, seen_titles) ==
    IF lines = <<>> THEN <<>>
    ELSE LET line == Head(lines)
             title == ExtractTitleFromBullet(line) IN
         IF IsNone(title)
         THEN <<line>> \o FilterLines(Tail(lines), exclude_lc, seen_titles)
         ELSE IF Lower(Val(title)) \in exclude_lc \/ Lower(Val(title)) \in seen_titles
         THEN FilterLines(Tail(lines), exclude_lc, seen_titles)
         ELSE <<line>> \o FilterLines(Tail(lines), exclude_lc,
                                      seen_titles \cup {Lower(Val(title))})

\* the reply without the filter of the bullets
CleanReplyUnfiltered(lines, exclude_titles) ==
    StripText(SelectSeq(StripText(lines), LAMBDA l : l.kind # "num"))

\* the lines of the reply make_answer returns: the text stripped, the lines
\* that hold only a number dropped, the bullets filtered, the result
\* stripped again
CleanReply(lines, exclude_titles) ==
    LET raw_lines == SelectSeq(StripText(lines), LAMBDA l : l.kind # "num")
        exclude_lc == { Lower(exclude_titles[n]) : n \in 1..Len(exclude_titles) }
    IN StripText(FilterLines(raw_lines, exclude_lc, {}))

\* what model.generate_content(prompt_text) does, as make_answer sees it:
\* it returns the text of the reply, raises ResourceExhausted or
\* FailedPrecondition (ra is what _extract_retry_after reads in the
\* message, in tenths of a second), or raises anything else
OutText(lines) == [kind |-> "text", lines |-> lines, ra |-> None]
OutExhausted(ra) == [kind |-> "exhausted", lines |-> <<>>, ra |-> ra]
OutError == [kind |-> "error", lines |-> <<>>, ra |-> None]

Replies ==
    { <<>>,
      << Line("num", "1.") >>,
      << Line("plain", "Thank you"), Line("bullet", "Oud Royal"),
         Line("bullet", "Vanille Intense"), Line("bullet", "OUD ROYAL") >> }

\* delays a quota message may name: none, "retry in 0s", "retry in 12.5s"
RetryDelays == {None, Some(0), Some(125)}

\* max_retries of _GeminiAdapter
MaxRetries == 6

\* how the generation service ends the calls of one generate_content: with
\* a reply, with PermissionDenied or NotFound under every model name, with
\* the region block message, or with an exception that is no API error
ApiText(lines) == [kind |-> "text", lines |-> lines]
ApiDenied == [kind |-> "denied", lines |-> <<>>]
ApiRegion == [kind |-> "region", lines |-> <<>>]
ApiRaises == [kind |-> "raises", lines |-> <<>>]

\* the service raises a retryable error (ResourceExhausted,
\* FailedPrecondition, GoogleAPICallError) on the first `run` calls, each
\* message naming the delay ra, and then ends as final says
Api(run, ra, final) == [run |-> run, ra |-> ra, final |-> final]

ApiFinals == { ApiText(r) : r \in Replies } \cup {ApiDenied, ApiRegion, ApiRaises}

ApiBehaviours ==
    { Api(0, None, f) : f \in ApiFinals }
        \cup { Api(1, d, f) : d \in RetryDelays, f \in ApiFinals }
        \cup { Api(MaxRetries + 1, d, ApiRaises) : d \in RetryDelays }

\* _GeminiAdapter.generate_content: it retries a retryable error until
\* attempt > max_retries and then returns empty text; it returns empty text
\* on the region block and once no fallback model is left; any other
\* exception leaves it
GenerateContent(api) ==
    IF api.run > MaxRetries THEN OutText(<<>>)
    ELSE IF api.final.kind = "text" THEN OutText(api.final.lines)
    ELSE IF api.final.kind \in {"denied", "region"} THEN OutText(<<>>)
    ELSE OutError

Answer(text, retry_after, path) ==
    [text |-> text, retry_after |-> retry_after, path |-> path]

\* the recommendations of the no-text branch of make_answer
NoTextRecos(product, preferred_titles, available_titles, exclude_titles) ==
    LET exclude == IF product # "" THEN Append(exclude_titles, product)
                   ELSE exclude_titles
    IN PickRecos(preferred_titles, available_titles, exclude, 3)

\* make_answer; out is the outcome of the backend call, if one is made
MakeAnswer(inp, available_titles, preferred_titles, exclude_titles, out, seed) ==
    IF inp.kind = "feedback" /\ (IsNone(inp.rating) \/ Val(inp.rating) # 5)
    THEN Answer(None, None, "rating")
    ELSE IF IsNoTextFeedback(inp)
    THEN LET product == Strip(inp.product_name)
             recos == NoTextRecos(product, preferred_titles, available_titles,
                                  exclude_titles)
         IN Answer(Some(RenderNoTextReply(product, recos, seed)), None, "notext")
    ELSE IF out.kind = "exhausted" THEN Answer(None, out.ra, "backend")
    ELSE IF out.kind = "error" THEN Answer(None, None, "backend")
    ELSE IF BlankText(out.lines) THEN Answer(None, None, "backend")
    ELSE LET cleaned == CleanReply(out.lines, exclude_titles)
         IN Answer(IF cleaned = <<>> THEN None ELSE Some(cleaned), None, "backend")

(***************************************************************************)
(* generate_answers                                                        *)
(***************************************************************************)
\* Python truth of an Optional[float]: None and 0.0 are false
Truthy(o) == ~IsNone(o) /\ Val(o) # 0

\* a SELECT that forgets its WHERE clause returns every row
RowsAll(rows, st, n) == [m \in 1..Len(rows) |-> m]

\* session.scalar in place of session.scalars: the first row only
RowsFirst(rows, st, n) ==
    LET hits == { m \in 1..Len(rows) : rows[m].status = st } IN
    IF hits = {} THEN <<>> ELSE << CHOOSE m \in hits : \A x \in hits : m <= x >>

\* indices of the rows a SELECT ... WHERE status = st returns
RECURSIVE RowsWith(_, _, _)
RowsWith(rows, st, n) ==
    IF n > Len(rows) THEN <<>>
    ELSE (IF rows[n].status = st THEN <<n>> ELSE <<>>) \o RowsWith(rows, st, n + 1)

\* the quota report of the generation service behind one attempt
NoSignal == [on |-> FALSE, ra |-> None]
Signal(ra) == [on |-> TRUE, ra |-> ra]

Att(n, path, ok, retry_after, quota) ==
    [n |-> n, path |-> path, ok |-> ok, retry_after |-> retry_after,
     quota |-> quota]

\* rows a generation pass called the backend for and got neither a text
\* nor a retry delay
FailedNoQuota(atts) ==
    { atts[k].n : k \in { j \in 1..Len(atts) :
          atts[j].path = "backend" /\ ~atts[j].ok /\ IsNone(atts[j].retry_after) } }

\* the tuple generate_answers returns; table questions is empty
GenResult(made, ram) == [made_fb |-> made, made_q |-> 0, retry_after |-> ram]

\* the loop without a commit of its own: the changes wait for the commit
\* of get_session
CommitItemAtExit(d) == d

\* session.commit() at the end of an iteration: the changed rows of the
\* session are in the database
CommitItem(d) == {}

\* session.rollback(), and session.close() after an exception that is not
\* an Exception: a row changed and not committed is as the pass found it
RollBack(rows, rows0, d) ==
    [n \in 1..Len(rows) |-> IF n \in d THEN rows0[n] ELSE rows[n]]

\* the pass is over: generate_answers or send_to_wb returns r
LeavePass(r) ==
    /\ pc' = "done"
    /\ ret' = r

\* locals at entry, and the SELECT of loaded feedbacks
EnterGenerate(again) ==
    /\ op' = "generate"
    /\ queue' = RowsWith(store, "loaded", 1)
    /\ qi' = 1
    /\ made_fb' = 0
    /\ retry_after_max' = None
    /\ attempts' = <<>>
    /\ prev_failed' = IF again THEN FailedNoQuota(attempts) ELSE {}
    /\ rerun' = again
    /\ store0' = store
    /\ IF queue' = <<>>
       THEN LeavePass(Returned("generate", GenResult(0, None)))
       ELSE pc' = "item" /\ ret' = Running("generate")
    /\ UNCHANGED <<store, sent_fb, hash_seed, ingestVars>>

\* settings.api_keys.GEMINI_TOKEN is set or empty; the sheet named by
\* ARMOULE_CATALOG_XLSX: the variable is not set, no column is found for the
\* id, none for the title, or both are found
Envs == [token : {"set", "empty"}, xlsx : {"unset", "no_id", "no_title", "ok"}]

\* the check of the credential left to the first call of the backend
ConfigErrorNoToken(e) ==
    IF e.xlsx = "unset" THEN "FileNotFoundError"
    ELSE IF e.xlsx \in {"no_id", "no_title"} THEN "KeyError"
    ELSE "none"

\* ensure_model() and then load_available() in a new process: the exception
\* the first of them raises, "none" when both return
ConfigError(e) ==
    IF e.token = "empty" THEN "RuntimeError"
    ELSE IF e.xlsx = "unset" THEN "FileNotFoundError"
    ELSE IF e.xlsx \in {"no_id", "no_title"} THEN "KeyError"
    ELSE "none"

\* generate_answers is left by exception e before its loop
FailGenerate(e) ==
    /\ op' = "generate"
    /\ queue' = <<>>
    /\ qi' = 1
    /\ made_fb' = 0
    /\ retry_after_max' = None
    /\ attempts' = <<>>
    /\ prev_failed' = {}
    /\ rerun' = FALSE
    /\ store0' = store
    /\ LeavePass(Raised("generate", e))
    /\ UNCHANGED <<store, sent_fb, hash_seed, ingestVars>>

\* a process with configuration e calls generate_answers
StartGenerate ==
    /\ op = "idle"
    /\ UNCHANGED <<simVars, adapterVars, runVars, rateVars, toolVars, sessVars, pureVars, catVars, questVars, workVars, delivVars>>
    /\ \E e \in Envs :
          /\ env' = e
          /\ IF ConfigError(e) # "none"
             THEN FailGenerate(ConfigError(e))
             ELSE EnterGenerate(FALSE)

\* the caller loops: generate_answers runs again right after it returned
GenerateAgain ==
    /\ op = "generate" /\ pc = "done" /\ ret.how = "returned"
    /\ UNCHANGED extVars
    /\ ~rerun
    /\ EnterGenerate(TRUE)

\* the gate at the head of the loop body
Eligible(fb) ==
    ~IsNone(fb.product_valuation) /\ Val(fb.product_valuation) = 5

\* product_title as the loop body resolves it
ProductTitle(fb) ==
    IF fb.product_name # "" THEN fb.product_name
    ELSE IF IsNone(fb.nm_id) \/ IsNone(NameByNmId(fb.nm_id)) THEN ""
    ELSE Val(NameByNmId(fb.nm_id))

\* the make_answer call of the loop body
AnswerFor(fb, out, seed) ==
    LET product_title == ProductTitle(fb)
        preferred == IF product_title # ""
                     THEN SimilarTitles(product_title, AvailableTitles, RecoK)
                     ELSE <<>>
    IN MakeAnswer(AnswerInput("feedback",
                              SurrogateFeedbackText(fb.text, fb.product_valuation, fb.username),
                              fb.product_valuation, product_title),
                  AvailableTitles, preferred,
                  IF product_title # "" THEN <<product_title>> ELSE <<>>,
                  out, seed)

\* a failed call ends the pass like a quota signal does
DecideBreakOnFailure(res) ==
    IF Truthy(res.retry_after) \/ IsNone(res.text) THEN "break" ELSE "commit"

\* the loop body without "if not text: continue"
DecideStoreAnyText(res) ==
    IF Truthy(res.retry_after) THEN "break" ELSE "commit"

\* what the loop body does with the answer of make_answer: "if
\* retry_after: ... break", "if not text: continue", or store the text
Decide(res) ==
    IF Truthy(res.retry_after) THEN "break"
    ELSE IF IsNone(res.text) THEN "continue"
    ELSE "commit"

\* one iteration of "for fb in session.scalars(...)"
GenerateItem ==
    /\ op = "generate" /\ pc = "item"
    /\ UNCHANGED <<simVars, adapterVars, runVars, rateVars, toolVars, procVars, pureVars, catVars, questVars, workVars, delivVars>>
    /\ LET n == queue[qi]
           fb == store[n] IN
       \E api \in ApiBehaviours, seed \in HashSeeds :
       LET out == GenerateContent(api)
           res == IF Eligible(fb) THEN AnswerFor(fb, out, seed)
                  ELSE Answer(None, None, "skip")
           todo == IF Eligible(fb) THEN Decide(res) ELSE "continue"
           made == IF todo = "commit" THEN made_fb + 1 ELSE made_fb
           ram == IF todo = "break"
                  THEN Some(Max(IF Truthy(retry_after_max)
                                THEN Val(retry_after_max) ELSE 0,
                                IF Truthy(res.retry_after)
                                THEN Val(res.retry_after) ELSE 0))
                  ELSE retry_after_max
       IN
       \* the backend and the hash seed are inputs only where they are used
       /\ res.path = "backend" \/ api = Api(0, None, ApiRaises)
       /\ IF res.path = "notext"
          THEN (hash_seed = NoSeed \/ hash_seed = seed) /\ hash_seed' = seed
          ELSE seed = 0 /\ hash_seed' = hash_seed
       /\ attempts' = Append(attempts,
                             Att(n, res.path, ~IsNone(res.text), res.retry_after,
                                 IF res.path = "backend" /\ api.run > MaxRetries
                                 THEN Signal(api.ra) ELSE NoSignal))
       /\ store' = IF todo = "commit"
                   THEN [store EXCEPT ![n].answer_text = res.text,
                                      ![n].status = "generated"]
                   ELSE store
       /\ dirty' = IF todo = "commit" THEN CommitItem(dirty \cup {n}) ELSE dirty
       /\ made_fb' = made
       /\ retry_after_max' = ram
       /\ qi' = IF todo = "break" THEN qi ELSE qi + 1
       /\ IF todo = "break" \/ qi = Len(queue)
          THEN LeavePass(Returned("generate", GenResult(made, ram)))
          ELSE UNCHANGED <<pc, ret>>
    /\ UNCHANGED <<op, store0, rerun, queue, sent_fb, prev_failed, ingestVars>>

(***************************************************************************)
(* send_to_wb                                                              *)
(***************************************************************************)
StartSend ==
    /\ op = "idle"
    /\ UNCHANGED extVars
    /\ op' = "send"
    /\ queue' = RowsWith(store, "generated", 1)
    /\ qi' = 1
    /\ sent_fb' = 0
    /\ attempts' = <<>>
    /\ store0' = store
    /\ IF queue' = <<>>
       THEN LeavePass(Returned("send", 0))
       ELSE pc' = "item" /\ ret' = Running("send")
    /\ UNCHANGED <<store, rerun, made_fb, retry_after_max, prev_failed, hash_seed,
                   ingestVars>>

\* not (fb.answer_text and fb.answer_text.strip())
BlankAnswer(fb) == IsNone(fb.answer_text) \/ BlankText(Val(fb.answer_text))

\* one iteration of the loop; ok: send_feedback_answer returned, otherwise
\* it raised
SendItem ==
    /\ op = "send" /\ pc = "item"
    /\ UNCHANGED <<simVars, adapterVars, runVars, rateVars, toolVars, procVars, pureVars, catVars, questVars, workVars, delivVars>>
    /\ LET n == queue[qi]
           fb == store[n]
           last == qi = Len(queue) IN
       \E ok \in BOOLEAN :
       LET blank == BlankAnswer(fb)
           sent == ~blank /\ ok IN
       /\ blank => ok
       /\ store' = [store EXCEPT ![n].status = IF sent THEN "sent" ELSE "failed"]
       /\ dirty' = CommitItem(dirty \cup {n})
       /\ sent_fb' = IF sent THEN sent_fb + 1 ELSE sent_fb
       /\ attempts' = Append(attempts,
                             Att(n, IF blank THEN "blank" ELSE "submit", ok, None,
                                 NoSignal))
       /\ qi' = qi + 1
       /\ IF last
          THEN LeavePass(Returned("send", sent_fb'))
          ELSE UNCHANGED <<pc, ret>>
    /\ UNCHANGED <<op, store0, rerun, queue, made_fb, retry_after_max, prev_failed,
                   hash_seed, ingestVars>>

(***************************************************************************)
(* requeue_failed.main                                                     *)
(***************************************************************************)
RequeueModes == {"resend", "regen"}
RequeueKinds == {"all", "feedbacks", "questions"}

\* the UPDATE of resend without its WHERE clause
RequeueRowNoWhere(fb, mode) ==
    IF mode = "resend" THEN [fb EXCEPT !.status = "generated"]
    ELSE IF fb.status # "failed" THEN fb
    ELSE [fb EXCEPT !.status = "loaded", !.answer_text = None]

\* the UPDATE of regen without answer_text=NULL
RequeueRowKeepsAnswer(fb, mode) ==
    IF fb.status # "failed" THEN fb
    ELSE IF mode = "resend" THEN [fb EXCEPT !.status = "generated"]
    ELSE [fb EXCEPT !.status = "loaded"]

\* UPDATE feedbacks SET ... WHERE status='failed'
RequeueRow(fb, mode) ==
    IF fb.status # "failed" THEN fb
    ELSE IF mode = "resend" THEN [fb EXCEPT !.status = "generated"]
    ELSE [fb EXCEPT !.status = "loaded", !.answer_text = None]

Requeue(mode, kind) ==
    /\ op = "idle"
    /\ UNCHANGED <<simVars, adapterVars, runVars, rateVars, sessVars, procVars, pureVars, catVars, questVars, workVars, delivVars>>
    /\ requeue' = [mode |-> mode, kind |-> kind,
                    matched |-> IF kind \in {"all", "feedbacks"}
                                THEN Cardinality({ n \in 1..Len(store) :
                                                     store[n].status = "failed" })
                                ELSE 0]
    /\ store' = IF kind \in {"all", "feedbacks"}
                THEN [n \in 1..Len(store) |-> RequeueRow(store[n], mode)]
                ELSE store
    /\ UNCHANGED <<op, pc, ret, store0, rerun, ingestVars, passVars>>

\* the process is stopped, or an exception leaves the loop, before the
\* next iteration has committed: get_session rolls back and closes
Interrupt ==
    /\ op \in {"generate", "send"} /\ pc = "item"
    /\ UNCHANGED <<simVars, adapterVars, runVars, rateVars, toolVars, procVars, pureVars, catVars, questVars, workVars, delivVars>>
    /\ store' = RollBack(store, store0, dirty)
    /\ dirty' = {}
    /\ pc' = "interrupted"
    /\ ret' = Raised(op, "Interrupted")
    /\ UNCHANGED <<op, store0, rerun, ingestVars, passVars>>

\* back in the caller, which may start the next pass
Finish ==
    /\ pc \in {"done", "interrupted"}
    /\ UNCHANGED <<simVars, adapterVars, runVars, rateVars, toolVars, pureVars, catVars, questVars, workVars, delivVars>>
    /\ env' = NoProcess
    /\ dirty' = {}
    /\ op' = "idle"
    /\ pc' = "idle"
    /\ ret' = Returned("none", 0)
    /\ store0' = <<>>
    /\ upstream' = <<>>
    /\ rerun' = FALSE
    /\ queue' = <<>>
    /\ qi' = 0
    /\ made_fb' = 0
    /\ retry_after_max' = None
    /\ sent_fb' = 0
    /\ attempts' = <<>>
    /\ prev_failed' = {}
    /\ hash_seed' = NoSeed
    /\ UNCHANGED <<store, order, skip, items, i, pending, inserted,
                   page_all_older, cutoff>>

(***************************************************************************)
(* Specifications.  SpecIngest runs the two ingestion functions over every *)
(* marketplace list up to MaxUpstream records; Spec runs the whole         *)
(* pipeline and the requeue tool over lists up to MaxFeed records.         *)
(***************************************************************************)
\* longest marketplace list served to an ingestion pass of Spec
MaxFeed == 1

NextIngest ==
    \/ op = "idle" /\ \E u \in LiveLists : StartIngest(u)
    \/ op = "idle" /\ \E u \in ArchiveLists, now \in Clock, ord \in Orders :
                        StartArchive(u, now, ord)
    \/ IngestSteps
    \/ Finish

SpecIngest == Init /\ [][NextIngest]_vars

Next ==
    \/ op = "idle" /\ \E u \in SeqsUpTo(LivePool, MaxFeed) : StartIngest(u)
    \/ op = "idle" /\ \E u \in SeqsUpTo(ArchivePool, MaxFeed), now \in Clock, ord \in Orders :
                        StartArchive(u, now, ord)
    \/ IngestSteps
    \/ StartGenerate
    \/ GenerateAgain
    \/ GenerateItem
    \/ StartSend
    \/ SendItem
    \/ op = "idle" /\ \E mode \in RequeueModes, kind \in RequeueKinds : Requeue(mode, kind)
    \/ Interrupt
    \/ Finish

Spec == Init /\ [][Next]_vars

(***************************************************************************)
(* Properties of ingestion.                                                *)
(***************************************************************************)
PassDone(o) == op = o /\ pc = "done"

\* distinct non-empty ids of a marketplace list that a store does not hold
NewIds(list, rows) ==
    { list[n].id : n \in 1..Len(list) } \ (Ids(rows) \cup {""})

\* C1: the store holds at most one feedback row per wb_id, whatever live
\* and archive passes have run and whatever lists they were served
C1_UniqueExternalId == UniqueOk(store)

\* a pass has returned after it met an id that was stored before it began,
\* and the store holds two rows
C1_Witness ==
    /\ pc = "done" /\ ret.how = "returned"
    /\ Len(store) = 2
    /\ \E n \in 1..Len(upstream) : upstream[n].id \in Ids(store0)

\* C2: a live pass over a list returns the number N of new ids, and the
\* same pass run again on the unchanged list returns 0 and changes nothing
C2_TwiceInARow ==
    PassDone("ingest") =>
        /\ ret.how = "returned"
        /\ ~rerun => ret.val = Cardinality(NewIds(upstream, store0))
        /\ rerun => ret.val = 0 /\ store = store0

\* C6: every row an archive pass commits was built from a record without
\* upstream answer whose creation time, in UTC, is not before the cutoff
C6_ArchiveInsertsInWindow ==
    [][(op = "archive" /\ store' # store) =>
        \A n \in (Len(store) + 1)..Len(store') :
            /\ store'[n].created_at_wb.t >= cutoff
            /\ \E m \in 1..Len(items) :
                /\ items[m].id = store'[n].wb_id
                /\ Strip(items[m].answer) = ""
                /\ items[m].createdDate.kind = "iso"
                /\ ToUtc(IsoToDt(items[m].createdDate)) = store'[n].created_at_wb]_vars

\* an archive pass has inserted a row from a list that also held an
\* answered record and a record older than the cutoff
C6_Witness ==
    /\ PassDone("archive")
    /\ Len(store) > Len(store0)
    /\ \E n \in 1..Len(upstream) : Strip(upstream[n].answer) # ""
    /\ \E n \in 1..Len(upstream) :
          /\ upstream[n].createdDate.kind = "iso"
          /\ ToUtc(IsoToDt(upstream[n].createdDate)).t < store[Len(store)].created_at_wb.t
          /\ upstream[n].createdDate.t >= store[Len(store)].created_at_wb.t

\* C7: in descending order the pass leaves the loop after a non-empty page
\* only if no record of that page lies inside the window, answered or not
C7_EarlyExitOnlyWhenAllOlder ==
    [][(op = "archive" /\ pc = "commit" /\ pc' = "done" /\ ret'.how = "returned") =>
        \A m \in 1..Len(items) :
            ~(/\ items[m].createdDate.kind = "iso"
              /\ ToUtc(IsoToDt(items[m].createdDate)).t >= cutoff)]_vars

(***************************************************************************)
(* Properties of generation, delivery and requeue.                         *)
(***************************************************************************)
Rating5(fb) == fb.product_valuation = Some(5)

\* rows a pass has taken from its queue so far
Attempted == { attempts[k].n : k \in 1..Len(attempts) }

\* C3: only a rating of exactly 5 lets a row go from loaded to generated;
\* a loaded row with another rating, or none, is left as it is by every
\* step, so it is still loaded after any number of generation passes
C3_OnlyRatingFiveGenerated ==
    [][\A n \in 1..Len(store) :
          /\ (store[n].status = "loaded" /\ store'[n].status = "generated")
                => Rating5(store[n])
          /\ (store[n].status = "loaded" /\ ~Rating5(store[n]))
                => store'[n] = store[n]]_vars

\* a second generation pass in a row has skipped a row that is still
\* loaded, while a rating-5 row was generated
C3_Witness ==
    /\ PassDone("generate") /\ rerun
    /\ \E k \in 1..Len(attempts) :
          /\ attempts[k].path = "skip"
          /\ store[attempts[k].n].status = "loaded"
          /\ store[attempts[k].n].answer_text = None
    /\ \E n \in 1..Len(store) : store[n].status = "generated" /\ Rating5(store[n])

AllowedChanges ==
    { <<"loaded", "generated">>, <<"generated", "sent">>, <<"generated", "failed">>,
      <<"failed", "generated">>, <<"failed", "loaded">> }

\* C4: rows are never removed, a new row is loaded, and a row changes its
\* status only along loaded->generated, generated->sent, generated->failed,
\* failed->generated, failed->loaded, each made by the operation it
\* belongs to; a sent row never changes
C4_StatusChanges ==
    [][/\ Len(store') >= Len(store)
       /\ \A n \in (Len(store) + 1)..Len(store') : store'[n].status = "loaded"
       /\ \A n \in 1..Len(store) :
             \/ store'[n].status = store[n].status
             \/ /\ <<store[n].status, store'[n].status>> \in AllowedChanges
                /\ store[n].status = "loaded" => op = "generate"
                /\ store[n].status = "generated" => op = "send"
                /\ store[n].status = "failed" => op = "idle"]_vars

\* a delivery pass has failed a row while a row sent earlier is still sent
C4_Witness ==
    /\ PassDone("send")
    /\ \E n \in 1..Len(store0) : store0[n].status = "sent" /\ store[n].status = "sent"
    /\ \E n \in 1..Len(store) : store0[n].status = "generated" /\ store[n].status = "failed"

\* C5: when send_to_wb returns, every row that was generated when it began
\* has been tried once and is sent if its answer was not blank and the
\* submission returned, failed otherwise; other rows are as they were
C5_DeliveryLeavesNoGenerated ==
    PassDone("send") =>
        /\ \A n \in 1..Len(store0) :
              IF store0[n].status = "generated"
              THEN /\ store[n].status \in {"sent", "failed"}
                   /\ \E k \in 1..Len(attempts) :
                         /\ attempts[k].n = n
                         /\ \A j \in 1..Len(attempts) : attempts[j].n = n => j = k
                         /\ store[n].status = "sent"
                               <=> (~BlankAnswer(store0[n]) /\ attempts[k].path = "submit"
                                    /\ attempts[k].ok)
              ELSE store[n] = store0[n]
        /\ Len(store) = Len(store0)

\* a delivery pass has returned after a submission raised for one row and
\* a later row was sent
C5_Witness ==
    /\ PassDone("send")
    /\ \E j, k \in 1..Len(attempts) :
          /\ j < k
          /\ ~attempts[j].ok /\ store[attempts[j].n].status = "failed"
          /\ attempts[k].ok /\ store[attempts[k].n].status = "sent"

QueuePos(n) == CHOOSE j \in 1..Len(queue) : queue[j] = n

\* C9: a row the backend failed for without quota signal stays loaded
\* with its answer_text, every eligible row after it in the queue is
\* attempted in the same pass, and the next pass attempts the row again
C9_FailureSkipsItemOnly ==
    PassDone("generate") =>
        /\ \A n \in FailedNoQuota(attempts) :
              /\ store[n].status = "loaded"
              /\ store[n].answer_text = store0[n].answer_text
              /\ \A j \in (QueuePos(n) + 1)..Len(queue) :
                    Eligible(store0[queue[j]]) => queue[j] \in Attempted
        /\ rerun => prev_failed \subseteq Attempted

\* the second of two passes in a row has tried again a row that the first
\* had left without answer, and has gone on to an eligible row after it
C9_Witness ==
    /\ PassDone("generate") /\ rerun
    /\ \E n \in prev_failed :
          /\ n \in Attempted
          /\ \E j \in Attempted : j > n /\ Rating5(store0[j])

\* a text is a no-text reply for a product: the lead sentence, then at
\* most three bullets, none of them the product
NoTextReplyFor(lines, product) ==
    /\ Len(lines) >= 1 /\ Len(lines) <= 1 + RecoK
    /\ lines[1].kind = "lead"
    /\ \A m \in 2..Len(lines) : lines[m].kind = "bullet" /\ lines[m].s # product

\* C10: a rating-5 row whose stored text is empty takes the no-text path:
\* no backend call, and the row is generated with a no-text reply
C10_EmptyTextTakesNoTextPath ==
    op = "generate" =>
        \A k \in 1..Len(attempts) :
            LET n == attempts[k].n IN
            (Rating5(store0[n]) /\ store0[n].text = "") =>
                /\ attempts[k].path = "notext"
                /\ store[n].status = "generated"
                /\ ~IsNone(store[n].answer_text)
                /\ NoTextReplyFor(Val(store[n].answer_text), ProductTitle(store0[n]))

(***************************************************************************)
(* similar_titles as a function of its arguments.  SpecSimilar calls it    *)
(* once on every query title, list of catalog titles and k of the sets     *)
(* below; _df_cache is the sheet CatalogRows.                              *)
(***************************************************************************)
\* largest k passed to similar_titles
MaxK == 3
\* longest list passed as catalog_titles
MaxCatalog == 2

\* a title with a description, one whose description is empty, one written
\* in another case, one with a volume, one the sheet does not hold
SimQueries ==
    {"", "Vanille Intense", "Amber Night", "OUD ROYAL", "Rose Noir 50ml", "Nice scent"}

SimTitlePool ==
    {"", "Vanille Intense", "Amber Night", "OUD ROYAL", "Oud Royal",
     "Rose Noir 50ml", "Iris Bloom"}

SimCatalogs == SeqsUpTo(SimTitlePool, MaxCatalog)

InitSimilar ==
    /\ PipeInit
    /\ AdapterIdle
    /\ RunsIdle
    /\ RateIdle
    /\ DelivIdle
    /\ WorkIdle
    /\ QuestIdle
    /\ CatIdle
    /\ PureIdle
    /\ ProcIdle
    /\ SessIdle
    /\ ToolIdle
    /\ \E q \in SimQueries, c \in SimCatalogs, kk \in 0..MaxK :
          sim_call = [query_title |-> q, catalog_titles |-> c, k |-> kk]
    /\ sim_out = None

\* out = similar_titles(query_title, catalog_titles, k)
CallSimilar ==
    /\ sim_out = None
    /\ sim_out' = Some(SimilarTitles(sim_call.query_title,
                                     sim_call.catalog_titles, sim_call.k))
    /\ UNCHANGED <<pipeVars, sim_call, adapterVars, runVars, rateVars, toolVars, sessVars, procVars, pureVars, catVars, questVars, workVars, delivVars>>

NextSimilar ==
    \/ CallSimilar

SpecSimilar == InitSimilar /\ [][NextSimilar]_vars

\* C11: for every query title, catalog and k >= 0, k = 0 included,
\* similar_titles returns at most k titles, none of them equal to the query
\* under _normalize_title, and the empty list when the query or the catalog
\* is empty
C11_SimilarTitlesBounded ==
    sim_out # None =>
        LET out == Val(sim_out) IN
        /\ Len(out) <= sim_call.k
        /\ \A n \in 1..Len(out) :
              NormalizeTitle(out[n]) # NormalizeTitle(sim_call.query_title)
        /\ (sim_call.query_title = "" \/ sim_call.catalog_titles = <<>>)
              => out = <<>>

(***************************************************************************)
(* Further properties of ingestion.                                        *)
(***************************************************************************)
\* C12: every row a live pass commits was built from a record that carries
\* no upstream answer and whose id is not empty and was not stored before;
\* the row is loaded and has no answer_text
C12_LiveInsertsUnanswered ==
    [][(op = "ingest" /\ store' # store) =>
        \A n \in (Len(store) + 1)..Len(store') :
            /\ store'[n].wb_id # ""
            /\ store'[n].wb_id \notin Ids(store)
            /\ store'[n].status = "loaded"
            /\ store'[n].answer_text = None
            /\ \E m \in 1..Len(items) :
                /\ items[m].id = store'[n].wb_id
                /\ Strip(items[m].answer) = ""]_vars

\* C13: in both modes a record whose createdDate cannot be parsed is
\* skipped: the pass does not end on the ValueError of _iso_to_dt, and a
\* live pass still stores every record with an id and a usable date
C13_UnparsableDateSkipped ==
    (pc = "done" /\ op \in {"ingest", "archive"} /\ ret.how # "IntegrityError") =>
        /\ ret.how = "returned"
        /\ op = "ingest" =>
              \A n \in 1..Len(upstream) :
                  (upstream[n].id # "" /\ upstream[n].createdDate.kind # "garbage")
                      => upstream[n].id \in Ids(store)

(***************************************************************************)
(* Further properties of generation.                                       *)
(***************************************************************************)
\* C14: make_answer on top of _GeminiAdapter.generate_content returns
\* (None, delay) when the backend reports quota exhaustion with a delay,
\* and no delay with a text or after a failure of another kind, so the
\* caller can tell the two apart
C14_QuotaReturnsDelay ==
    op = "generate" =>
        \A k \in 1..Len(attempts) :
            attempts[k].path = "backend" =>
                /\ (attempts[k].quota.on /\ ~IsNone(attempts[k].quota.ra)) =>
                      /\ ~attempts[k].ok
                      /\ attempts[k].retry_after = attempts[k].quota.ra
                /\ ~attempts[k].quota.on => IsNone(attempts[k].retry_after)
                /\ attempts[k].ok => IsNone(attempts[k].retry_after)

(***************************************************************************)
(* _GeminiAdapter.generate_content, call by call.  SpecAdapter runs it     *)
(* against a generation service that ends every call in any of the ways    *)
(* the function distinguishes.  Times are in tenths of a second.           *)
(***************************************************************************)
\* base_sleep of _GeminiAdapter, 0.6 s
BaseSleep == 6
\* the cap min(delay, 15.0) on one sleep
MaxSleep == 150

\* delays an error message may name: RetryDelays and "retry in 60s"
CallDelays == RetryDelays \cup {Some(600)}

\* ResourceExhausted, FailedPrecondition or another GoogleAPICallError
\* whose message names the delay ra
ApiRetry(ra) == [kind |-> "retry", lines |-> <<>>, ra |-> ra]

\* how one self.model.generate_content call ends
CallOutcomes ==
    { ApiText(r) : r \in Replies }
        \cup { ApiRetry(d) : d \in CallDelays }
        \cup {ApiDenied, ApiRegion, ApiRaises}

\* time.sleep without the cap
SleepForUncapped(delay) == delay

\* time.sleep(min(delay, 15.0))
SleepFor(delay) == Min(delay, MaxSleep)

\* delay = _extract_retry_after(msg) or (self.base_sleep * (2 ** attempt))
RetryDelay(ra, n) == IF Truthy(ra) THEN Val(ra) ELSE BaseSleep * 2^n

\* generate_content is entered
AdapterEnter ==
    /\ gc_pc = "idle"
    /\ gc_pc' = "call"
    /\ attempt' = 0
    /\ gc_ret' = NoResult
    /\ gc_log' = [calls |-> 0, sleeps |-> <<>>, fallback0 |-> Len(fallback_models)]
    /\ UNCHANGED <<pipeVars, simVars, runVars, rateVars, fallback_models, toolVars, sessVars, procVars, pureVars, catVars, questVars, workVars, delivVars>>

\* return from generate_content, or the exception that leaves it
AdapterEnds(r) ==
    /\ gc_pc' = "done"
    /\ gc_ret' = r

\* one iteration of "while True": the backend call and its handler
AdapterCall ==
    /\ gc_pc = "call"
    /\ UNCHANGED <<pipeVars, simVars, runVars, rateVars, toolVars, sessVars, procVars, pureVars, catVars, questVars, workVars, delivVars>>
    /\ \E o \in CallOutcomes :
       LET called == [gc_log EXCEPT !.calls = @ + 1] IN
       CASE o.kind = "text" ->
              /\ AdapterEnds(OutText(o.lines))
              /\ gc_log' = called
              /\ UNCHANGED <<attempt, fallback_models>>
         [] o.kind = "region" ->
              /\ AdapterEnds(OutText(<<>>))
              /\ gc_log' = called
              /\ UNCHANGED <<attempt, fallback_models>>
         [] o.kind = "retry" ->
              /\ attempt' = attempt + 1
              /\ UNCHANGED fallback_models
              /\ IF attempt + 1 > MaxRetries
                 THEN /\ AdapterEnds(OutText(<<>>))
                      /\ gc_log' = called
                 ELSE /\ gc_log' = [called EXCEPT !.sleeps =
                                       Append(@, SleepFor(RetryDelay(o.ra, attempt + 1)))]
                      /\ UNCHANGED <<gc_pc, gc_ret>>
         [] o.kind = "denied" ->
              /\ gc_log' = called
              /\ UNCHANGED attempt
              /\ IF fallback_models # <<>>
                 THEN /\ fallback_models' = Tail(fallback_models)
                      /\ UNCHANGED <<gc_pc, gc_ret>>
                 ELSE /\ AdapterEnds(OutText(<<>>))
                      /\ UNCHANGED fallback_models
         [] o.kind = "raises" ->
              /\ AdapterEnds(OutError)
              /\ gc_log' = called
              /\ UNCHANGED <<attempt, fallback_models>>

\* back in the caller; the locals are dead, FALLBACK_MODELS stays as it is
AdapterLeave ==
    /\ gc_pc = "done"
    /\ gc_pc' = "idle"
    /\ attempt' = 0
    /\ gc_ret' = NoResult
    /\ gc_log' = NoLog
    /\ UNCHANGED <<pipeVars, simVars, runVars, rateVars, fallback_models, toolVars, sessVars, procVars, pureVars, catVars, questVars, workVars, delivVars>>

NextAdapter ==
    \/ AdapterEnter
    \/ AdapterCall
    \/ AdapterLeave

SpecAdapter == Init /\ [][NextAdapter]_vars

\* the thread that runs generate_content goes on to its next statement
FairSpecAdapter == SpecAdapter /\ WF_vars(AdapterCall)

\* calls made, sleeps taken and the result of a generate_content that gave
\* up are inside the limits
AdapterWithinLimits ==
    /\ gc_log.calls <= MaxRetries + 1 + gc_log.fallback0
    /\ \A n \in 1..Len(gc_log.sleeps) : gc_log.sleeps[n] <= MaxSleep
    /\ (gc_pc = "done" /\ attempt > MaxRetries) => gc_ret = OutText(<<>>)

\* C15: generate_content always ends; it makes at most max_retries + 1
\* backend calls plus one per fallback model that was left, sleeps at most
\* 15 seconds between two calls, and after max_retries retryable errors it
\* returns empty text
C15_AdapterGivesUp ==
    /\ []AdapterWithinLimits
    /\ (gc_pc = "call") ~> (gc_pc = "done")

\* a generate_content has given up after it used the fallback model and
\* one of its sleeps was cut to the cap
C15_Witness ==
    /\ gc_pc = "done"
    /\ attempt = MaxRetries + 1
    /\ gc_log.calls = MaxRetries + 2
    /\ \E n \in 1..Len(gc_log.sleeps) : gc_log.sleeps[n] = MaxSleep
    /\ gc_ret = OutText(<<>>)

(***************************************************************************)
(* Pipeline runs (app/scheduler.py, run_pipeline.py).  SpecRuns has the    *)
(* three cron jobs of the scheduler and the command "all"; a run is        *)
(* followed from call to call, and log holds the pipeline functions it     *)
(* has called.  The jobs of a BlockingScheduler run on the threads of its  *)
(* default executor, one instance per job at a time.                       *)
(***************************************************************************)
\* most credentials configured in GEMINI_TOKENS
MaxTokens == 3

TokenLists == { [j \in 1..n |-> j] : n \in 0..MaxTokens }

\* token_index_for_slot of the three jobs
SlotIndex(r) ==
    CASE r = "slot1" -> 0
      [] r = "slot2" -> 1
      [] r = "slot3" -> 2

\* an ingestion function returns its count or is left by an exception
CallEnds == {"returned", "raised"}

\* _generate_with_token: its first statement is get_model(token_override=
\* token), and get_model() takes no argument
GenerateWithToken(tok) == [how |-> "TypeError", fb |-> 0, retry_after |-> None]

\* the pipeline function a run calls first, put wrongly
AfterStartGenerate(r) == IF r = "cli" THEN "cmd_generate" ELSE "switch"

\* the pipeline function a run calls first
AfterStart(r) == "ingest"

InitRuns ==
    /\ PipeInit
    /\ SimIdle
    /\ AdapterIdle
    /\ RateIdle
    /\ DelivIdle
    /\ WorkIdle
    /\ QuestIdle
    /\ CatIdle
    /\ PureIdle
    /\ ProcIdle
    /\ SessIdle
    /\ ToolIdle
    /\ tokens \in TokenLists
    /\ runs = [r \in Runs |-> IdleRun]

\* the trigger of a job fires: _pipeline_once up to its first call
Fire(r) ==
    /\ r \in Slots
    /\ runs[r].pc = "idle"
    /\ runs' = [runs EXCEPT ![r] =
                   IF tokens = <<>> \/ SlotIndex(r) >= Len(tokens)
                   THEN [IdleRun EXCEPT !.pc = "done", !.how = "returned"]
                   ELSE [IdleRun EXCEPT !.pc = AfterStart(r), !.how = "running"]]
    /\ UNCHANGED <<pipeVars, simVars, adapterVars, rateVars, tokens, toolVars, sessVars, procVars, pureVars, catVars, questVars, workVars, delivVars>>

\* cmd_all(token)
StartCli(tok) ==
    /\ runs["cli"].pc = "idle"
    /\ runs' = [runs EXCEPT !["cli"] =
                   [IdleRun EXCEPT !.pc = AfterStart("cli"), !.how = "running",
                                   !.token = tok]]
    /\ UNCHANGED <<pipeVars, simVars, adapterVars, rateVars, tokens, toolVars, sessVars, procVars, pureVars, catVars, questVars, workVars, delivVars>>

\* the run is left by the exception e
RunRaises(run, e) == [run EXCEPT !.pc = "done", !.how = e]

\* the next call of a run and what the run does with its result
RunStep(r) ==
    /\ runs[r].pc \in {"ingest", "archive", "switch", "cmd_generate", "send"}
    /\ UNCHANGED <<pipeVars, simVars, adapterVars, rateVars, tokens, toolVars, sessVars, procVars, pureVars, catVars, questVars, workVars, delivVars>>
    /\ LET run == runs[r]
           n == Len(tokens)
           Called(f) == [run EXCEPT !.log = Append(@, f)] IN
       CASE run.pc = "ingest" ->
              \E e \in CallEnds :
                 runs' = [runs EXCEPT ![r] =
                     IF e = "returned"
                     THEN [Called("ingest_feedbacks") EXCEPT !.pc = "archive"]
                     ELSE RunRaises(Called("ingest_feedbacks"), "raised")]
         [] run.pc = "archive" ->
              \E e \in CallEnds :
                 runs' = [runs EXCEPT ![r] =
                     IF e = "raised"
                     THEN RunRaises(Called("ingest_feedbacks_archive"), "raised")
                     ELSE IF r = "cli"
                     THEN [Called("ingest_feedbacks_archive") EXCEPT !.pc = "cmd_generate"]
                     ELSE \* _run_generate_auto_switch up to "while True"
                          [Called("ingest_feedbacks_archive") EXCEPT
                              !.pc = "switch",
                              !.idx = SlotIndex(r) % n,
                              !.streak = 0]]
         [] run.pc = "switch" ->
              \* one iteration of the loop of _run_generate_auto_switch
              LET res == GenerateWithToken(tokens[run.idx + 1])
                  called == [Called("get_model") EXCEPT !.last = res] IN
              runs' = [runs EXCEPT ![r] =
                  IF res.how # "returned" THEN RunRaises(called, res.how)
                  ELSE IF Truthy(res.retry_after)
                  THEN [called EXCEPT !.idx = (run.idx + 1) % n, !.streak = 0]
                  ELSE IF res.fb > 0
                  THEN [called EXCEPT !.streak = 0]
                  ELSE IF run.streak + 1 >= n
                  THEN [called EXCEPT !.streak = run.streak + 1, !.pc = "send"]
                  ELSE [called EXCEPT !.streak = run.streak + 1,
                                      !.idx = (run.idx + 1) % n]]
         [] run.pc = "cmd_generate" ->
              \* get_model(token_override=token), or get_model() and then
              \* generate_answers(s, model), which takes the session only
              runs' = [runs EXCEPT ![r] =
                  IF ~IsNone(run.token)
                  THEN RunRaises(Called("get_model"), "TypeError")
                  ELSE RunRaises([run EXCEPT !.log = @ \o <<"get_model", "generate_answers">>],
                                 "TypeError")]
         [] run.pc = "send" ->
              \* fb, _ = send_to_wb(s) unpacks the int send_to_wb returns
              runs' = [runs EXCEPT ![r] = RunRaises(Called("send_to_wb"), "TypeError")]

\* the job function is over; its trigger may fire again
RunEnds(r) ==
    /\ runs[r].pc = "done"
    /\ runs' = [runs EXCEPT ![r] = IdleRun]
    /\ UNCHANGED <<pipeVars, simVars, adapterVars, rateVars, tokens, toolVars, sessVars, procVars, pureVars, catVars, questVars, workVars, delivVars>>

NextRuns ==
    \/ \E r \in Slots : Fire(r)
    \/ \E tok \in {None, Some(1)} : StartCli(tok)
    \/ \E r \in Runs : RunStep(r)
    \/ \E r \in Runs : RunEnds(r)

SpecRuns == InitRuns /\ [][NextRuns]_vars

\* the thread of a run goes on to its next statement
FairSpecRuns == SpecRuns /\ \A r \in Runs : WF_vars(RunStep(r))

StageOf(f) ==
    CASE f \in {"ingest_feedbacks", "ingest_feedbacks_archive"} -> 1
      [] f \in {"get_model", "generate_answers"} -> 2
      [] f = "send_to_wb" -> 3

\* C18: within one run the calls go stage by stage: a call of the
\* generation stage comes after ingest_feedbacks and
\* ingest_feedbacks_archive have both returned, a call of delivery comes
\* after the calls of generation, and no call of an earlier stage follows
\* a call of a later one
C18_StagesInOrder ==
    \A r \in Runs :
        LET calls == runs[r].log IN
        /\ \A a, b \in 1..Len(calls) :
              a < b => StageOf(calls[a]) <= StageOf(calls[b])
        /\ \A b \in 1..Len(calls) :
              StageOf(calls[b]) >= 2 =>
                  /\ b > 2
                  /\ calls[1] = "ingest_feedbacks"
                  /\ calls[2] = "ingest_feedbacks_archive"
        /\ \A b \in 1..Len(calls) :
              StageOf(calls[b]) = 3 =>
                  \E a \in 1..(b - 1) : StageOf(calls[a]) = 2

\* a scheduled run and a run of the command "all" have both reached the
\* generation stage after their two ingestion calls
C18_Witness ==
    /\ runs["slot2"].log = <<"ingest_feedbacks", "ingest_feedbacks_archive", "get_model">>
    /\ runs["cli"].log = <<"ingest_feedbacks", "ingest_feedbacks_archive",
                           "get_model", "generate_answers">>

\* the run has begun and not ended
Active(r) == runs[r].pc \notin {"idle", "done"}

\* C19: no two scheduled runs execute at the same time
C19_OneRunAtATime ==
    \A r1, r2 \in Slots : r1 # r2 => ~(Active(r1) /\ Active(r2))

(***************************************************************************)
(* WBClient and the rate limiter (app/clients/wb_client.py,                *)
(* app/utils/rate_limiter.py).  SpecRate runs the operations of the client *)
(* one after the other against a marketplace that answers each request in  *)
(* any of the ways the client distinguishes.  Time is counted in sixths of *)
(* a second and passes between any two steps.                              *)
(***************************************************************************)
\* min_interval = 1.0 / rps with rps = 3.0
MinInterval == 2
\* backoff = 1.0 at the head of list_feedbacks_archive
FirstBackoff == 6
\* backoff = min(backoff * 2, 16)
MaxBackoff == 96
\* for attempt in range(5)
ArchiveAttempts == 5

ClientOps ==
    {"list_feedbacks", "list_questions", "list_feedbacks_archive",
     "send_feedback_answer", "send_question_answer", "reject_question"}

\* HTTP answers: 2xx with a body, 204, 429 or 5xx, 400 with the "Empty
\* state" error text, another 4xx
Responses == {"ok", "no_content", "retry", "bad_state", "error"}

Later(t, d) == Min(t + d, TimeCap)

\* rate.wait(): how long it sleeps when rate._last is ago in the past
WaitSleeps(ago) == IF ago < MinInterval THEN MinInterval - ago ELSE 0

\* time passes: network latency, work between two operations
Tick ==
    /\ rate_last_ago < TimeCap \/ wire.gap < TimeCap
    /\ rate_last_ago' = Later(rate_last_ago, 1)
    /\ wire' = [wire EXCEPT !.gap = Later(@, 1)]
    /\ UNCHANGED <<pipeVars, simVars, adapterVars, runVars, http, toolVars, sessVars, procVars, pureVars, catVars, questVars, workVars, delivVars>>

\* an operation is called: rate.wait() and the request that follows it
ClientCall(o) ==
    /\ http.pc = "idle"
    /\ LET slept == WaitSleeps(rate_last_ago) IN
       /\ rate_last_ago' = 0
       /\ wire' = [gap |-> 0, sent_gap |-> Later(wire.gap, slept), waited |-> TRUE]
    /\ http' = [op |-> o, pc |-> "sent", attempt |-> 1, backoff |-> FirstBackoff,
                how |-> "running", last |-> "none"]
    /\ UNCHANGED <<pipeVars, simVars, adapterVars, runVars, toolVars, sessVars, procVars, pureVars, catVars, questVars, workVars, delivVars>>

\* the operation is over
ClientEnds(how, resp) == [http EXCEPT !.pc = "done", !.how = how, !.last = resp]

\* the answer to the request arrives and the operation handles it
ClientResponse ==
    /\ http.pc \in {"sent", "sent_b"}
    /\ UNCHANGED <<pipeVars, simVars, adapterVars, runVars, toolVars, sessVars, procVars, pureVars, catVars, questVars, workVars, delivVars>>
    /\ \E resp \in Responses :
       IF http.op = "list_feedbacks_archive" /\ resp = "retry"
       THEN \* time.sleep(backoff), and the next request of the loop if
            \* there is one
            /\ rate_last_ago' = Later(rate_last_ago, http.backoff)
            /\ IF http.attempt < ArchiveAttempts
               THEN /\ http' = [http EXCEPT !.attempt = @ + 1,
                                            !.backoff = Min(@ * 2, MaxBackoff)]
                    /\ wire' = [gap |-> 0, sent_gap |-> Later(wire.gap, http.backoff),
                                waited |-> FALSE]
               ELSE /\ http' = ClientEnds("HTTPError", resp)
                    /\ wire' = [wire EXCEPT !.gap = Later(@, http.backoff)]
       ELSE IF http.op = "send_question_answer" /\ http.pc = "sent" /\ resp = "bad_state"
       THEN \* the second PATCH, with payload_b
            /\ http' = [http EXCEPT !.pc = "sent_b"]
            /\ wire' = [gap |-> 0, sent_gap |-> wire.gap, waited |-> FALSE]
            /\ UNCHANGED rate_last_ago
       ELSE /\ http' = ClientEnds(IF resp \in {"ok", "no_content"}
                                  THEN "returned" ELSE "HTTPError", resp)
            /\ UNCHANGED <<rate_last_ago, wire>>

\* back in the caller
ClientReturn ==
    /\ http.pc = "done"
    /\ http' = NoHttp
    /\ UNCHANGED <<pipeVars, simVars, adapterVars, runVars, rate_last_ago, wire, toolVars, sessVars, procVars, pureVars, catVars, questVars, workVars, delivVars>>

NextRate ==
    \/ Tick
    \/ \E o \in ClientOps : ClientCall(o)
    \/ ClientResponse
    \/ ClientReturn

SpecRate == Init /\ [][NextRate]_vars

\* C20: every HTTP request to the marketplace is sent at least the minimum
\* interval 1/rps after the request before it and directly after a
\* rate.wait(), retries of the archive list and the second request of the
\* question answer included
C20_RequestsSpaced ==
    /\ wire.sent_gap >= MinInterval
    /\ wire.waited

(***************************************************************************)
(* The requeue tool.                                                       *)
(***************************************************************************)

\* C21: a run of the requeue tool changes only failed rows: with resend a
\* failed row becomes generated and keeps its answer_text, with regen it
\* becomes loaded with answer_text cleared; a row that is loaded, generated
\* or sent, and every feedback row when --kind is questions, is as it was
C21_RequeueChangesOnlyFailed ==
    [][(op = "idle" /\ op' = "idle" /\ (store' # store \/ requeue' # requeue)) =>
          /\ requeue' # NoRequeue
          /\ Len(store') = Len(store)
          /\ \A n \in 1..Len(store) :
                IF store[n].status = "failed" /\ requeue'.kind # "questions"
                THEN /\ requeue'.mode = "resend" =>
                           store'[n] = [store[n] EXCEPT !.status = "generated"]
                     /\ requeue'.mode = "regen" =>
                           store'[n] = [store[n] EXCEPT !.status = "loaded",
                                                        !.answer_text = None]
                ELSE store'[n] = store[n]]_vars

\* regen has just run over a store with a failed row next to a sent row:
\* no row is failed any more, the sent row is sent, a row is loaded again
C21_Witness ==
    /\ requeue.mode = "regen" /\ requeue.matched > 0
    /\ op = "idle"
    /\ \E n \in 1..Len(store) : store[n].status = "sent"
    /\ \E n \in 1..Len(store) :
          store[n].status = "loaded" /\ store[n].answer_text = None /\ Rating5(store[n])
    /\ \A n \in 1..Len(store) : store[n].status # "failed"

(***************************************************************************)
(* Interrupted passes.                                                     *)
(***************************************************************************)

\* C22: when a generation or delivery pass is interrupted, every row the
\* pass had moved to a new status holds that status, and the answer_text
\* written with it, in the database; only the row the loop was at, and the
\* rows after it, are as the pass found them
C22_InterruptKeepsCommitted ==
    (pc = "interrupted") =>
       /\ Len(attempts) = qi - 1
       /\ \A k \in 1..Len(attempts) :
             LET n == attempts[k].n IN
             /\ n = queue[k]
             /\ (op = "generate" /\ attempts[k].ok) =>
                   /\ store[n].status = "generated"
                   /\ ~IsNone(store[n].answer_text)
                   /\ IsNone(store0[n].answer_text)
             /\ (op = "generate" /\ ~attempts[k].ok) => store[n] = store0[n]
             /\ op = "send" =>
                   /\ store[n].status =
                         IF attempts[k].path = "submit" /\ attempts[k].ok
                         THEN "sent" ELSE "failed"
                   /\ store[n].answer_text = store0[n].answer_text
       /\ \A m \in qi..Len(queue) : store[queue[m]] = store0[queue[m]]

\* a delivery pass was interrupted after it had sent one row and before it
\* came to a second one
C22_Witness ==
    /\ pc = "interrupted" /\ op = "send"
    /\ Len(attempts) = 1 /\ Len(queue) >= 2
    /\ store[queue[1]].status = "sent"
    /\ store[queue[2]].status = "generated"

(***************************************************************************)
(* Failures of the collaborators.                                          *)
(***************************************************************************)

\* C23: when a call of a collaborator fails during a generation or delivery
\* pass (the backend gives no text, the submission raises), the pass still
\* returns and the row it was made for is as the pass found it, to be
\* taken again by the next pass
C23_FailureLeavesItemForRetry ==
    (pc = "done" /\ op \in {"generate", "send"}) =>
       /\ ret.how = "returned"
       /\ \A k \in 1..Len(attempts) :
             (attempts[k].path \in {"backend", "submit"} /\ ~attempts[k].ok)
                => store[attempts[k].n] = store0[attempts[k].n]

(***************************************************************************)
(* Configuration of the generating process.                                *)
(***************************************************************************)

\* the credential is missing, the catalog variable is not set, or the
\* sheet has no column for the id or for the title
BadConfig(e) == e.token = "empty" \/ e.xlsx \in {"unset", "no_id", "no_title"}

\* C24: a generation pass of a process whose configuration is in error has
\* ended by an exception before its loop: no row was taken, so the backend
\* was not called, and every row is as the pass found it
C24_ConfigErrorBeforeItems ==
    (op = "generate" /\ BadConfig(env)) =>
       /\ pc = "done"
       /\ ret.how \in {"RuntimeError", "FileNotFoundError", "KeyError"}
       /\ attempts = <<>>
       /\ store = store0

\* a pass over a store with a loaded rating-5 row has failed for the
\* missing title column while the credential was set
C24_Witness ==
    /\ PassDone("generate")
    /\ env = [token |-> "set", xlsx |-> "no_title"]
    /\ ret.how = "KeyError"
    /\ \E n \in 1..Len(store) : store[n].status = "loaded" /\ Rating5(store[n])

(***************************************************************************)
(* Paging of live ingestion.                                               *)
(***************************************************************************)

\* C25: a live pass over a list asks for the pages at skip 0, take,
\* 2*take, ..., moving on by take with the one commit that follows a page
\* with records and ending at the first empty page; it returns, and every
\* record of the list with an id is then in the store
C25_LivePassStoresEveryRecord ==
    /\ [](PassDone("ingest") =>
            /\ ret.how = "returned"
            /\ \A n \in 1..Len(upstream) :
                  upstream[n].id # "" => upstream[n].id \in Ids(store))
    /\ [][(op = "ingest" /\ pc # "done" /\ pc' # "done") =>
            /\ skip' # skip => (pc = "commit" /\ items # <<>> /\ skip' = skip + Take)
            /\ store' # store => skip' # skip
            /\ pc' = "item" => items' = PageOf(upstream, Take, skip)]_vars

(***************************************************************************)
(* Retries of the marketplace client.                                      *)
(***************************************************************************)

\* the operations the pipeline calls for feedbacks
CoreOps == {"list_feedbacks", "list_feedbacks_archive", "send_feedback_answer"}

\* C26: an operation of the pipeline that ends on a 429 or 5xx answer has
\* sent the fixed number of requests before it gave the error to its
\* caller, and its backoff never went over the cap
C26_EveryOperationRetries ==
    (http.op \in CoreOps) =>
       /\ http.backoff <= MaxBackoff
       /\ (http.pc = "done" /\ http.last = "retry") =>
             (http.how = "HTTPError" /\ http.attempt = ArchiveAttempts)

(***************************************************************************)
(* The post-filter of make_answer, on replies of up to MaxLines lines.     *)
(***************************************************************************)
MaxLines == 3

\* a bullet "🔹 title — words"
BulletWith(t) == [kind |-> "bullet", s |-> t, v |-> 1]

FilterPool ==
    { Line("plain", "Thank you"), Line("plain", ""), Line("num", "1."),
      Line("bullet", "Oud Royal"), Line("bullet", "OUD ROYAL"),
      BulletWith("Oud Royal"), Line("bullet", "Vanille Intense"),
      Line("bullet", "") }

\* getattr(out, "text", "").strip().splitlines(): no blank line at an end
FilterReplies ==
    { r \in SeqsUpTo(FilterPool, MaxLines) :
         r # <<>> /\ ~BlankLine(r[1]) /\ ~BlankLine(r[Len(r)]) }

FilterExcludes == { <<>>, <<"Oud Royal">>, <<"vanille intense", "Iris Bloom">> }

InitFilter ==
    /\ PipeInit
    /\ SimIdle
    /\ AdapterIdle
    /\ RunsIdle
    /\ RateIdle
    /\ DelivIdle
    /\ WorkIdle
    /\ QuestIdle
    /\ CatIdle
    /\ ToolIdle
    /\ SessIdle
    /\ ProcIdle
    /\ \E r \in FilterReplies, e \in FilterExcludes :
          pure_call = [fn |-> "clean", lines |-> r, exclude_titles |-> e]
    /\ pure_out = None

\* lines 339-354 of make_answer on the text of the reply
CallFilter ==
    /\ pure_call.fn = "clean" /\ pure_out = None
    /\ pure_out' = Some(CleanReply(pure_call.lines, pure_call.exclude_titles))
    /\ UNCHANGED <<pipeVars, simVars, adapterVars, runVars, rateVars, toolVars, sessVars, procVars, pure_call, catVars, questVars, workVars, delivVars>>

NextFilter == CallFilter

SpecFilter == InitFilter /\ [][NextFilter]_vars

\* titles of the bullets of a text, in order
BulletTitles(lines) ==
    LET b == SelectSeq(lines, LAMBDA l : ~IsNone(ExtractTitleFromBullet(l)))
    IN [n \in 1..Len(b) |-> Lower(Val(ExtractTitleFromBullet(b[n])))]

\* the bullet at position n of a text names an excluded title or a title
\* that a bullet before it names
Dropped(lines, excl, n) ==
    LET t == ExtractTitleFromBullet(lines[n]) IN
    /\ ~IsNone(t)
    /\ \/ Lower(Val(t)) \in { Lower(excl[m]) : m \in 1..Len(excl) }
       \/ \E m \in 1..(n - 1) :
             /\ ~IsNone(ExtractTitleFromBullet(lines[m]))
             /\ Lower(Val(ExtractTitleFromBullet(lines[m]))) = Lower(Val(t))

\* the lines of a text that are not dropped bullets, in order
Undropped(lines, excl) ==
    LET keep == { n \in 1..Len(lines) : ~Dropped(lines, excl, n) }
        F[n \in 0..Len(lines)] ==
            IF n = 0 THEN <<>>
            ELSE IF n \in keep THEN Append(F[n - 1], lines[n]) ELSE F[n - 1]
    IN F[Len(lines)]

\* no bullet of the result names an excluded title and no two name the same
CleanBullets(r, excl) ==
    LET t == BulletTitles(r) IN
    /\ \A n \in 1..Len(t) : t[n] \notin { Lower(excl[m]) : m \in 1..Len(excl) }
    /\ \A n, m \in 1..Len(t) : t[n] = t[m] => n = m

\* C27 as stated: the returned text has no bullet that names an excluded
\* title, no two bullets that name the same title, and holds every other
\* line of the reply in its order
C27_OtherLinesAllKept ==
    (pure_call.fn = "clean" /\ ~IsNone(pure_out)) =>
       /\ CleanBullets(Val(pure_out), pure_call.exclude_titles)
       /\ Val(pure_out) = Undropped(pure_call.lines, pure_call.exclude_titles)

\* C27, amended: the returned text has no bullet that names an excluded
\* title and no two bullets that name the same title, the first is kept;
\* it holds, in their order, the other lines of the reply except those that
\* hold only a number and the blank lines left at its ends
C27_FilteredReply ==
    (pure_call.fn = "clean" /\ ~IsNone(pure_out)) =>
       /\ CleanBullets(Val(pure_out), pure_call.exclude_titles)
       /\ Val(pure_out) =
             StripText(SelectSeq(Undropped(pure_call.lines, pure_call.exclude_titles),
                                 LAMBDA l : l.kind # "num"))

\* the filter has dropped a bullet with an excluded title and a repeated
\* bullet and kept a plain line and a bullet
C27_Witness ==
    /\ pure_call.fn = "clean" /\ ~IsNone(pure_out)
    /\ pure_call.exclude_titles = <<"vanille intense", "Iris Bloom">>
    /\ pure_call.lines = << Line("bullet", "Oud Royal"), Line("bullet", "Vanille Intense"),
                            BulletWith("Oud Royal") >>
    /\ Val(pure_out) = << Line("bullet", "Oud Royal") >>

(***************************************************************************)
(* The recommendations of the no-text reply, for preferred lists of up to  *)
(* MaxPref titles.                                                         *)
(***************************************************************************)
MaxPref == 2

RecoTitles ==
    { "Oud Royal", "OUD ROYAL", " Oud Royal ", "Vanille Intense", "Iris Bloom",
      "Amber Night", " " }

\* the title pool of the catalog, no pool, a pool that repeats a title
RecoPools == { AvailableTitles, <<>>, <<"Iris Bloom", "Oud Royal", "OUD ROYAL", " ">> }

RecoExcludes == { <<>>, <<"Iris Bloom">>, <<" Oud Royal ">> }

RecoProducts == { "", "Vanille Intense", "OUD ROYAL" }

InitRecos ==
    /\ PipeInit
    /\ SimIdle
    /\ AdapterIdle
    /\ RunsIdle
    /\ RateIdle
    /\ DelivIdle
    /\ WorkIdle
    /\ QuestIdle
    /\ CatIdle
    /\ ToolIdle
    /\ SessIdle
    /\ ProcIdle
    /\ \E pr \in SeqsUpTo(RecoTitles, MaxPref), av \in RecoPools,
          ex \in RecoExcludes, p \in RecoProducts :
          pure_call = [fn |-> "recos", product |-> p, preferred |-> pr,
                       available |-> av, exclude_titles |-> ex]
    /\ pure_out = None

\* lines 295-301 of make_answer
CallRecos ==
    /\ pure_call.fn = "recos" /\ pure_out = None
    /\ pure_out' = Some(NoTextRecos(pure_call.product, pure_call.preferred,
                                    pure_call.available, pure_call.exclude_titles))
    /\ UNCHANGED <<pipeVars, simVars, adapterVars, runVars, rateVars, toolVars, sessVars, procVars, pure_call, catVars, questVars, workVars, delivVars>>

NextRecos == CallRecos

SpecRecos == InitRecos /\ [][NextRecos]_vars

\* the lowered titles a call excludes, the purchased product among them
Excluded(call) ==
    { Lower(Strip(call.exclude_titles[n])) : n \in 1..Len(call.exclude_titles) }
       \cup (IF call.product # "" THEN {Lower(call.product)} ELSE {})

\* positions of a list of candidates that hold a title that may be
\* recommended and that no earlier position holds
Fresh(cands, excl) ==
    { n \in 1..Len(cands) :
         /\ Strip(cands[n]) # ""
         /\ Lower(Strip(cands[n])) \notin excl
         /\ \A m \in 1..(n - 1) : Lower(Strip(cands[m])) # Lower(Strip(cands[n])) }

\* C28: the recommendations of the no-text reply are at most 3 titles,
\* different from each other in lower case, none of them the purchased
\* product or another excluded title; they are the first three titles that
\* may be recommended of the preferred list followed by the general pool
C28_RecosFromPreferredFirst ==
    (pure_call.fn = "recos" /\ ~IsNone(pure_out)) =>
       LET out == Val(pure_out)
           cands == pure_call.preferred \o pure_call.available
           fresh == Fresh(cands, Excluded(pure_call)) IN
       /\ Len(out) <= RecoK
       /\ \A n, m \in 1..Len(out) : Lower(out[n]) = Lower(out[m]) => n = m
       /\ \A n \in 1..Len(out) : Lower(out[n]) \notin Excluded(pure_call)
       /\ Len(out) = Min(RecoK, Cardinality(fresh))
       /\ \A n \in 1..Len(out) :
             \E c \in fresh :
                /\ out[n] = Strip(cands[c])
                /\ Cardinality({ d \in fresh : d < c }) = n - 1

\* three titles were picked, the first from the preferred list and the
\* others from the pool, past the purchased product and a repeated title
C28_Witness ==
    /\ pure_call.fn = "recos" /\ ~IsNone(pure_out)
    /\ pure_call.product = "Vanille Intense"
    /\ pure_call.preferred = <<"Oud Royal", "OUD ROYAL">>
    /\ pure_call.available = AvailableTitles
    /\ Len(Val(pure_out)) = 3
    /\ Val(pure_out)[1] = "Oud Royal"

(***************************************************************************)
(* The no-text reply rendered in two runs.                                 *)
(***************************************************************************)
RenderProducts == { "", " ", "Oud Royal", "Vanille Intense" }

RenderRecos == SeqsUpTo({"Iris Bloom", "Amber Night", "Rose Noir 50ml"}, MaxPref)

InitRender ==
    /\ PipeInit
    /\ SimIdle
    /\ AdapterIdle
    /\ RunsIdle
    /\ RateIdle
    /\ DelivIdle
    /\ WorkIdle
    /\ QuestIdle
    /\ CatIdle
    /\ ToolIdle
    /\ SessIdle
    /\ ProcIdle
    /\ \E p \in RenderProducts, rc \in RenderRecos :
          pure_call = [fn |-> "render", product |-> p, recos |-> rc]
    /\ pure_out = Some(<<>>)

\* _render_no_text_reply(product, recos) in a process whose string hash is
\* randomised by seed
CallRender(seed) ==
    /\ pure_call.fn = "render" /\ Len(Val(pure_out)) < 2
    /\ pure_out' = Some(Append(Val(pure_out),
                               [seed |-> seed,
                                text |-> RenderNoTextReply(pure_call.product,
                                                           pure_call.recos, seed)]))
    /\ UNCHANGED <<pipeVars, simVars, adapterVars, runVars, rateVars, toolVars, sessVars, procVars, pure_call, catVars, questVars, workVars, delivVars>>

NextRender == \E seed \in HashSeeds : CallRender(seed)

SpecRender == InitRender /\ [][NextRender]_vars

\* C29: two runs that render the no-text reply for the same product title
\* and the same recommendations, in one process or in two, give the same
\* text
C29_SameReplyEveryRun ==
    (pure_call.fn = "render" /\ Len(Val(pure_out)) = 2) =>
       Val(pure_out)[1].text = Val(pure_out)[2].text

(***************************************************************************)
(* The catalog cache of one process.                                       *)
(***************************************************************************)
MaxReads == 2

\* the variable is not set; no id column; no title column; no description
\* holds a word; two sheets that load
Sheets ==
    { SheetOf("unset", <<>>), SheetOf("no_id", CatalogRows),
      SheetOf("no_title", CatalogRows), SheetOf("no_words", SubSeq(CatalogRows, 4, 4)),
      SheetOf("ok", CatalogRows), SheetOf("ok", SubSeq(CatalogRows, 1, 2)) }

\* sorted(set(titles), key=str.lower)
TitlesOf(rows) ==
    SelectSeq(AvailableTitles, LAMBDA t : \E n \in 1..Len(rows) : rows[n].title = t)

\* mapping and titles as load_available builds them from the rows
LoadFrom(rows) ==
    [map |-> { <<rows[n].id, rows[n].title>> : n \in 1..Len(rows) },
     titles |-> TitlesOf(rows)]

\* the exception reading a sheet ends with, "none" if it loads
SheetError(s) ==
    CASE s.state = "unset" -> "FileNotFoundError"
      [] s.state \in {"no_id", "no_title"} -> "KeyError"
      [] s.state = "no_words" -> "ValueError"
      [] OTHER -> "none"

InitCatalog ==
    /\ PipeInit
    /\ SimIdle
    /\ AdapterIdle
    /\ RunsIdle
    /\ RateIdle
    /\ DelivIdle
    /\ WorkIdle
    /\ QuestIdle
    /\ ToolIdle
    /\ SessIdle
    /\ ProcIdle
    /\ PureIdle
    /\ sheet \in Sheets
    /\ catalog = NoCatalog
    /\ cat_ret = NoCatCall

\* the file is replaced, or the variable changed, while the process runs
EditSheet ==
    /\ \E s \in Sheets : s # sheet /\ sheet' = s
    /\ UNCHANGED <<pipeVars, simVars, adapterVars, runVars, rateVars, toolVars, sessVars, procVars, pureVars, catalog, cat_ret, questVars, workVars, delivVars>>

\* a cache that is never taken as filled
CacheHitNever(c) == FALSE

\* _cache_map is not None and _cache_titles is not None
CacheHit(c) == ~IsNone(c.cache)

LoadCallers == {"generate_answers", "similar_titles", "names_only", "name_by_nm_id"}

\* load_available(), called by one of its callers
LoadAvailable(by) ==
    /\ UNCHANGED <<pipeVars, simVars, adapterVars, runVars, rateVars, toolVars, sessVars, procVars, pureVars, sheet, questVars, workVars, delivVars>>
    /\ IF CacheHit(catalog)
       THEN /\ cat_ret' = [by |-> by, how |-> "returned", val |-> catalog.cache]
            /\ UNCHANGED catalog
       ELSE IF SheetError(sheet) \in {"FileNotFoundError", "KeyError"}
       THEN /\ cat_ret' = [by |-> by, how |-> SheetError(sheet), val |-> None]
            /\ UNCHANGED catalog
       ELSE /\ catalog.reads < MaxReads
            \* the caches are assigned before the vectorizer is fitted:
            \* _matrix_cache is set only if fit_transform returns
            /\ catalog' = [cache |-> Some(LoadFrom(sheet.rows)),
                           reads |-> catalog.reads + 1,
                           matrix |-> IF SheetError(sheet) = "ValueError"
                                      THEN "unset" ELSE "built"]
            /\ cat_ret' = IF SheetError(sheet) = "ValueError"
                          THEN [by |-> by, how |-> "ValueError", val |-> None]
                          ELSE [by |-> by, how |-> "returned",
                                val |-> Some(LoadFrom(sheet.rows))]

\* titles_pool(available_map) of generate_answers: a new list from the map
\* that load_available returned
TitlesPool ==
    /\ cat_ret.how = "returned" /\ cat_ret.by = "generate_answers"
    /\ cat_ret' = [by |-> "titles_pool", how |-> "returned", val |-> cat_ret.val]
    /\ UNCHANGED <<pipeVars, simVars, adapterVars, runVars, rateVars, toolVars, sessVars, procVars, pureVars, sheet, catalog, questVars, workVars, delivVars>>

NextCatalog ==
    \/ EditSheet
    \/ \E by \in LoadCallers : LoadAvailable(by)
    \/ TitlesPool

SpecCatalog == InitCatalog /\ [][NextCatalog]_vars

\* C30: a process reads the catalog source at most once with success: once
\* the cache is filled no step changes it, whatever the source holds
\* later, and every call of load_available that returns gives the cached
\* map and title list
C30_CatalogLoadedOnce ==
    /\ [](/\ catalog.reads <= 1
          /\ ~IsNone(catalog.cache) <=> catalog.reads = 1
          /\ (cat_ret.how = "returned" /\ cat_ret.by \in LoadCallers) =>
                cat_ret.val = catalog.cache)
    /\ [][~IsNone(catalog.cache) => catalog' = catalog]_vars

\* the catalog was loaded from the whole sheet, the sheet was replaced by a
\* shorter one, and a later call returned the map of the whole sheet
C30_Witness ==
    /\ catalog = [cache |-> Some(LoadFrom(CatalogRows)), reads |-> 1,
                  matrix |-> "built"]
    /\ sheet = SheetOf("ok", SubSeq(CatalogRows, 1, 2))
    /\ cat_ret = [by |-> "similar_titles", how |-> "returned",
                  val |-> Some(LoadFrom(CatalogRows))]

(***************************************************************************)
(* Questions: ingest_questions, the question loop of generate_answers and  *)
(* send_to_wb, over lists of up to MaxQuestions questions.                 *)
(***************************************************************************)
MaxQuestions == 2

QRec(id, text, nm) == [id |-> id, text |-> text, nm |-> nm]

QuestionPool ==
    { QRec("q1", "Chem zamenit?", Some(103)), QRec("q2", "", None),
      QRec("q1", "Nice scent", Some(999)), QRec("", "Nice scent", None),
      QRec("q3", "Nice scent", Some(103)) }

\* Question(wb_id=..., status=Status.loaded)
QuestionRow(q) ==
    [wb_id |-> q.id, nm_id |-> q.nm, text |-> q.text, status |-> "loaded",
     answer_text |-> None]

\* _surrogate_question_text
SurrogateQuestionText(text) ==
    IF Strip(text) # "" THEN Strip(text) ELSE "Vopros bez teksta."

\* _need_recommendation: one of the TRIGGERS is in the lowered text; of the
\* texts of the pool "Chem zamenit?" holds one ("zamenit")
NeedRecommendation(txt) == txt \in {"Chem zamenit?"}

\* the rows a pass of ingest_questions adds for a list: the records with
\* an id that is not stored, duplicates in the list included
RECURSIVE NewQuestions(_)
NewQuestions(list) ==
    IF list = <<>> THEN <<>>
    ELSE LET q == Head(list) IN
         IF q.id = "" \/ \E n \in 1..Len(questions) : questions[n].wb_id = q.id
         THEN NewQuestions(Tail(list))
         ELSE <<QuestionRow(q)>> \o NewQuestions(Tail(list))

\* ingest_questions over a list that fits one page
IngestQuestions(list) ==
    /\ qrun.pc \in {"idle", "done"}
    /\ LET rows == NewQuestions(list)
           ok == \A n, m \in 1..Len(rows) : rows[n].wb_id = rows[m].wb_id => n = m IN
       /\ questions' = IF ok THEN questions \o rows ELSE questions
       /\ qrun' = [NoQRun EXCEPT !.op = "ingest", !.pc = "done",
                                 !.how = IF ok THEN "returned" ELSE "IntegrityError"]
    /\ UNCHANGED <<pipeVars, simVars, adapterVars, runVars, rateVars, toolVars, sessVars, procVars, pureVars, catVars, workVars, delivVars>>

\* generate_answers comes to its second loop: SELECT of loaded questions
StartQuestions ==
    /\ qrun.pc \in {"idle", "done"}
    /\ LET q == SelectSeq([n \in 1..Len(questions) |-> n],
                          LAMBDA n : questions[n].status = "loaded") IN
       qrun' = [op |-> "generate", pc |-> IF q = <<>> THEN "done" ELSE "item",
                queue |-> q, qi |-> 1, made_q |-> 0,
                how |-> IF q = <<>> THEN "returned" ELSE "running"]
    /\ UNCHANGED <<pipeVars, simVars, adapterVars, runVars, rateVars, toolVars, sessVars, procVars, pureVars, catVars, questions, workVars, delivVars>>

\* the make_answer call of the question loop
AnswerForQuestion(q, out) ==
    LET text_in == SurrogateQuestionText(q.text)
        product_title == IF IsNone(q.nm_id) \/ IsNone(NameByNmId(q.nm_id)) THEN ""
                         ELSE Strip(Val(NameByNmId(q.nm_id)))
        exclude == IF product_title # "" THEN <<product_title>> ELSE <<>>
        preferred == IF product_title # "" /\ NeedRecommendation(text_in)
                     THEN SimilarTitles(product_title, AvailableTitles, RecoK)
                     ELSE <<>>
    IN MakeAnswer(AnswerInput("question", text_in, None, product_title),
                  AvailableTitles, preferred, exclude, out, 0)

\* one iteration of "for q in session.scalars(...)"
QuestionItem ==
    /\ qrun.op = "generate" /\ qrun.pc = "item"
    /\ \E api \in ApiBehaviours :
       LET n == qrun.queue[qrun.qi]
           res == AnswerForQuestion(questions[n], GenerateContent(api))
           todo == Decide(res)
           last == todo = "break" \/ qrun.qi = Len(qrun.queue) IN
       /\ questions' = IF todo = "commit"
                       THEN [questions EXCEPT ![n].answer_text = res.text,
                                              ![n].status = "generated"]
                       ELSE questions
       /\ qrun' = [qrun EXCEPT !.qi = IF todo = "break" THEN @ ELSE @ + 1,
                               !.made_q = IF todo = "commit" THEN @ + 1 ELSE @,
                               !.pc = IF last THEN "done" ELSE "item",
                               !.how = IF last THEN "returned" ELSE "running"]
    /\ UNCHANGED <<pipeVars, simVars, adapterVars, runVars, rateVars, toolVars, sessVars, procVars, pureVars, catVars, workVars, delivVars>>

\* send_to_wb with no generated feedback: its loop over the questions is
\* commented out, the function returns sent_fb
SendQuestions ==
    /\ qrun.pc \in {"idle", "done"}
    /\ qrun' = [NoQRun EXCEPT !.op = "send", !.pc = "done", !.how = "returned"]
    /\ UNCHANGED <<pipeVars, simVars, adapterVars, runVars, rateVars, toolVars, sessVars, procVars, pureVars, catVars, questions, workVars, delivVars>>

NextQuestions ==
    \/ \E list \in SeqsUpTo(QuestionPool, MaxQuestions) : IngestQuestions(list)
    \/ StartQuestions
    \/ QuestionItem
    \/ SendQuestions

SpecQuestions == Init /\ [][NextQuestions]_vars

\* C31: when a delivery pass has returned, no question is left in
\* generated: each question that generate_answers moved to generated has
\* been moved on to sent or failed
C31_QuestionsDelivered ==
    (qrun.op = "send" /\ qrun.pc = "done") =>
       \A n \in 1..Len(questions) : questions[n].status # "generated"

(***************************************************************************)
(* Page sizes: the requests ingest_feedbacks and ingest_feedbacks_archive  *)
(* issue for each value the TAKE setting may hold (an int with no          *)
(* constraint, config.py:29), over runs of up to MaxPages requests.        *)
(***************************************************************************)
MaxPages == 3

TakeValues == {0 - 1, 0, 1, 500, MaxTake, MaxTake + 1}

\* the process has read its settings and has called no ingestion function
Configured(t) == [fn |-> "config", take_cfg |-> t, skip |-> 0, pages |-> 0]

\* params of a GET
PageRequest(url, take, k) == [url |-> url, take |-> take, skip |-> k]

InitTake ==
    /\ PipeInit
    /\ SimIdle
    /\ AdapterIdle
    /\ RunsIdle
    /\ RateIdle
    /\ DelivIdle
    /\ WorkIdle
    /\ ToolIdle
    /\ SessIdle
    /\ ProcIdle
    /\ CatIdle
    /\ QuestIdle
    /\ pure_call \in {Configured(t) : t \in TakeValues}
    /\ pure_out = None

\* ingest_feedbacks up to its loop: take = settings.api_keys.TAKE
LiveTake(take_cfg) == take_cfg

\* ingest_feedbacks_archive up to its loop:
\* min(int(getattr(settings.api_keys, "TAKE", 1000) or 1000), 5000)
ArchiveTakeOf(take_cfg) == Min(IF take_cfg = 0 THEN 1000 ELSE take_cfg, MaxTake)

\* list_feedbacks_archive: take = max(1, min(int(take), 5000))
ClientArchiveTake(take) == Max(1, Min(take, MaxTake))

\* list_feedbacks_archive: skip = max(0, int(skip))
ClientArchiveSkip(k) == Max(0, k)

StartLiveTake ==
    /\ pure_call.fn # "none"
    /\ pure_call.pages < MaxPages
    /\ pure_call' = [pure_call EXCEPT !.fn = "ingest_feedbacks", !.skip = 0]
    /\ pure_out' = None
    /\ UNCHANGED <<pipeVars, simVars, adapterVars, runVars, rateVars, toolVars, sessVars, procVars, catVars, questVars, workVars, delivVars>>

\* client.list_feedbacks(is_answered=False, take=take, skip=skip) answered by
\* a page with records; skip += take
LiveRequest ==
    /\ pure_call.fn = "ingest_feedbacks"
    /\ pure_call.pages < MaxPages
    /\ LET take == LiveTake(pure_call.take_cfg) IN
       /\ pure_out' = Some(PageRequest("/feedbacks", take, pure_call.skip))
       /\ pure_call' = [pure_call EXCEPT !.skip = @ + take, !.pages = @ + 1]
    /\ UNCHANGED <<pipeVars, simVars, adapterVars, runVars, rateVars, toolVars, sessVars, procVars, catVars, questVars, workVars, delivVars>>

StartArchiveTake ==
    /\ pure_call.fn # "none"
    /\ pure_call.pages < MaxPages
    /\ pure_call' = [pure_call EXCEPT !.fn = "ingest_feedbacks_archive", !.skip = 0]
    /\ pure_out' = None
    /\ UNCHANGED <<pipeVars, simVars, adapterVars, runVars, rateVars, toolVars, sessVars, procVars, catVars, questVars, workVars, delivVars>>

\* client.list_feedbacks_archive(take=take, skip=skip, order=order) answered
\* by a page of len_items records; skip += len(items)
ArchiveRequest ==
    /\ pure_call.fn = "ingest_feedbacks_archive"
    /\ pure_call.pages < MaxPages
    /\ LET take == ClientArchiveTake(ArchiveTakeOf(pure_call.take_cfg)) IN
       \E len_items \in 1..Min(take, 2) :
          /\ pure_out' = Some(PageRequest("/feedbacks/archive", take,
                                          ClientArchiveSkip(pure_call.skip)))
          /\ pure_call' = [pure_call EXCEPT !.skip = @ + len_items, !.pages = @ + 1]
    /\ UNCHANGED <<pipeVars, simVars, adapterVars, runVars, rateVars, toolVars, sessVars, procVars, catVars, questVars, workVars, delivVars>>

NextTake == StartLiveTake \/ LiveRequest \/ StartArchiveTake \/ ArchiveRequest

SpecTake == InitTake /\ [][NextTake]_vars

\* C32: every page request of ingestion, live or archive, asks for a page
\* of 1 to 5000 records, whatever TAKE holds
C32_PageSizeWithinLimits ==
    ~IsNone(pure_out) => Val(pure_out).take \in 1..MaxTake

\* C33: ingestion never adds a row whose wb_id is already in the store or
\* among the rows added earlier in the page being processed, so no page
\* commit ends in a duplicate-key error
C33_NoDuplicateInsert ==
    /\ UniqueOk(store \o pending)
    /\ ret.how # "IntegrityError"

\* C34: no call of a scheduled run fails on the signature of the function
\* it calls, and a scheduled run that has come to its generation stage
\* goes on to call send_to_wb and returns
C34_ScheduledRunDelivers ==
    /\ [](\A r \in Slots : runs[r].how # "TypeError")
    /\ \A r \in Slots :
          (runs[r].pc = "switch") ~>
              (/\ runs[r].pc = "done"
               /\ runs[r].how = "returned"
               /\ \E n \in 1..Len(runs[r].log) : runs[r].log[n] = "send_to_wb")

(***************************************************************************)
(* The generation loops: main of workers/generate.py, _run_generate_loop   *)
(* of scheduler.py and cmd_generate of run_pipeline.py, over tables of up  *)
(* to MaxWork feedbacks and one question.                                  *)
(***************************************************************************)
MaxWork == 2

WorkLoops == {"worker", "scheduler", "cli"}

WorkRecs ==
    { Rec("f1", "", Some(5), "Vanille Intense", Some(101), Some("Anna"),
          RawIso(190, Some(0)), ""),
      Rec("f2", "ok", Some(5), "", Some(102), None, RawMissing, ""),
      Rec("f2", "Nice scent", Some(3), "Oud Royal", Some(103), None,
          RawIso(190, None), ""),
      Rec("f3", "Nice scent", Some(5), "Oud Royal", Some(103), None,
          RawIso(190, Some(0)), "") }

\* tables ingestion has filled: loaded rows with different ids
WorkStores ==
    { [n \in 1..Len(u) |-> LiveRow(u[n], 200)] :
        u \in { v \in SeqsUpTo(WorkRecs, MaxWork) :
                  \A n, m \in 1..Len(v) : v[n].id = v[m].id => n = m } }

WorkQuestions == { <<>>, <<QuestionRow(QRec("q2", "", None))>> }

\* the loaded items a pass of generate_answers works on: feedbacks that
\* pass the rating gate, and questions
EligibleItems ==
    Cardinality({ n \in 1..Len(store) :
                    store[n].status = "loaded" /\ Eligible(store[n]) })
      + Cardinality({ n \in 1..Len(questions) : questions[n].status = "loaded" })

InitWorker ==
    /\ op = "idle"
    /\ pc = "idle"
    /\ upstream = <<>>
    /\ order = "dateDesc"
    /\ skip = 0
    /\ items = <<>>
    /\ i = 0
    /\ pending = <<>>
    /\ inserted = 0
    /\ page_all_older = TRUE
    /\ cutoff = 0
    /\ ret = Returned("none", 0)
    /\ store0 = <<>>
    /\ rerun = FALSE
    /\ queue = <<>>
    /\ qi = 0
    /\ made_fb = 0
    /\ retry_after_max = None
    /\ sent_fb = 0
    /\ attempts = <<>>
    /\ prev_failed = {}
    /\ hash_seed = NoSeed
    /\ store \in WorkStores
    /\ questions \in WorkQuestions
    /\ qrun = NoQRun
    /\ SimIdle
    /\ AdapterIdle
    /\ RunsIdle
    /\ RateIdle
    /\ DelivIdle
    /\ WorkIdle
    /\ ToolIdle
    /\ SessIdle
    /\ ProcIdle
    /\ PureIdle
    /\ CatIdle

\* the process of a loop starts: up to "while True"
WorkerStart(lp) ==
    /\ worker.pc = "idle"
    /\ worker' = [loop |-> lp, pc |-> "call", how |-> "running", passes |-> 0,
                  e0 |-> EligibleItems]
    /\ UNCHANGED <<pipeVars, simVars, adapterVars, runVars, rateVars, toolVars, sessVars, procVars, pureVars, catVars, questVars, delivVars>>

\* the call of generate_answers at the head of the loop body:
\* generate_answers(s) in the worker, generate_answers(s, model) in
\* _run_generate_loop and cmd_generate, which the function does not accept
WorkerCall ==
    /\ worker.pc = "call"
    /\ op = "idle"
    /\ IF worker.loop # "worker"
       THEN /\ worker' = [worker EXCEPT !.pc = "done", !.how = "TypeError"]
            /\ UNCHANGED <<pipeVars, procVars, delivVars>>
       ELSE \E e \in Envs :
               /\ env' = e
               /\ IF ConfigError(e) # "none"
                  THEN /\ FailGenerate(ConfigError(e))
                       /\ worker' = [worker EXCEPT !.pc = "done", !.how = ConfigError(e)]
                  ELSE /\ EnterGenerate(worker.passes > 0)
                       /\ worker' = [worker EXCEPT !.pc = "pass"]
    /\ UNCHANGED <<simVars, adapterVars, runVars, rateVars, toolVars, sessVars, pureVars, catVars, questVars, delivVars>>

\* generate_answers comes from its loop over the feedbacks to its loop
\* over the questions
WorkerQuestions ==
    /\ worker.pc = "pass"
    /\ op = "generate" /\ pc = "done"
    /\ qrun.op = "idle"
    /\ StartQuestions

\* "if fb == 0 and q == 0: break"
WorkerBreakNever(fb, q) == FALSE

WorkerBreak(fb, q) == fb = 0 /\ q = 0

\* generate_answers returns (made_fb, made_q, None) and the session is
\* closed; the loop ends or goes to its next pass
WorkerDecide ==
    /\ worker.pc = "pass"
    /\ op = "generate" /\ pc = "done"
    /\ qrun.op = "generate" /\ qrun.pc = "done"
    /\ worker' = [worker EXCEPT
                     !.passes = @ + 1,
                     !.pc = IF WorkerBreak(ret.val.made_fb, qrun.made_q)
                            THEN "done" ELSE "call",
                     !.how = IF WorkerBreak(ret.val.made_fb, qrun.made_q)
                             THEN "returned" ELSE "running"]
    /\ qrun' = NoQRun
    /\ dirty' = {}
    /\ op' = "idle"
    /\ pc' = "idle"
    /\ ret' = Returned("none", 0)
    /\ store0' = <<>>
    /\ rerun' = FALSE
    /\ queue' = <<>>
    /\ qi' = 0
    /\ made_fb' = 0
    /\ retry_after_max' = None
    /\ attempts' = <<>>
    /\ prev_failed' = {}
    /\ UNCHANGED <<store, sent_fb, hash_seed, ingestVars, questions>>
    /\ UNCHANGED <<simVars, adapterVars, runVars, rateVars, toolVars, procVars, pureVars, catVars, delivVars>>

NextWorker ==
    \/ \E lp \in WorkLoops : WorkerStart(lp)
    \/ WorkerCall
    \/ GenerateItem
    \/ WorkerQuestions
    \/ QuestionItem
    \/ WorkerDecide

SpecWorker == InitWorker /\ [][NextWorker]_vars

\* the process of the loop goes on to its next statement.  The last
\* conjunct is WF_vars(GenerateItem) with ENABLED <<GenerateItem>>_vars
\* written out: an iteration of the loop over the feedbacks can be taken
\* exactly when the pass is at an item
FairSpecWorker ==
    /\ SpecWorker
    /\ WF_vars(WorkerCall)
    /\ WF_vars(WorkerQuestions)
    /\ WF_vars(QuestionItem)
    /\ WF_vars(WorkerDecide)
    /\ \/ []<>~(op = "generate" /\ pc = "item")
       \/ []<><<GenerateItem>>_vars

\* C35: a generation loop makes at most E + 1 passes, E the eligible
\* loaded items at its start, and comes to its end
C35_WorkerLoopEnds ==
    /\ [](worker.passes <= worker.e0 + 1)
    /\ (worker.pc = "call") ~> (worker.pc = "done")

\* the worker has returned after E + 1 passes that each generated for one
\* of its E >= 2 items
C35_Witness ==
    /\ worker.loop = "worker"
    /\ worker.pc = "done"
    /\ worker.how = "returned"
    /\ worker.e0 >= 2
    /\ worker.passes = worker.e0 + 1

\* C36: a loaded row has no answer_text, a generated or sent row has an
\* answer_text that is not blank, and no delivery pass takes its blank-
\* answer branch
C36_AnswerMatchesStatus ==
    /\ \A n \in 1..Len(store) :
          /\ store[n].status = "loaded" => IsNone(store[n].answer_text)
          /\ store[n].status \in {"generated", "sent"} => ~BlankAnswer(store[n])
    /\ op = "send" => \A k \in 1..Len(attempts) : attempts[k].path # "blank"

\* a delivery pass has sent the one row of the table, which "requeue
\* --mode resend" had moved from failed back to generated
C36_Witness ==
    /\ op = "send"
    /\ Len(store) = 1
    /\ requeue.mode = "resend" /\ requeue.matched > 0
    /\ \E k \in 1..Len(attempts) :
          /\ attempts[k].path = "submit"
          /\ store[attempts[k].n].status = "sent"
          /\ ~BlankAnswer(store[attempts[k].n])

(***************************************************************************)
(* Delivery processes.  SpecDeliver has two processes that run send_to_wb  *)
(* (workers/send.py, run_pipeline.py send) next to each other on one       *)
(* table; each is followed from its SELECT through the POST and the commit *)
(* of every row, and may be stopped between the two.                       *)
(***************************************************************************)
\* most rows of the table
MaxSend == 2

\* most POSTs followed
MaxPosts == 3

Senders == {"send1", "send2"}

SendIds == {"f1", "f2"}

\* a row as generation left it, or as an earlier pass left it
SendRow(id, st) ==
    [wb_id |-> id, status |-> st,
     answer_text |-> IF st = "loaded" THEN None
                     ELSE Some(<<Line("plain", "Thank you")>>)]

SendTables ==
    { t \in SeqsUpTo({ SendRow(id, st) :
                         id \in SendIds,
                         st \in {"loaded", "generated", "sent", "failed"} }, MaxSend) :
        \A n, m \in 1..Len(t) : t[n].wb_id = t[m].wb_id => n = m }

IdleSender == [pc |-> "idle", queue |-> <<>>, qi |-> 0, ok |-> FALSE]

InitDeliver ==
    /\ PipeInit
    /\ SimIdle
    /\ AdapterIdle
    /\ RunsIdle
    /\ RateIdle
    /\ WorkIdle
    /\ ToolIdle
    /\ SessIdle
    /\ ProcIdle
    /\ PureIdle
    /\ CatIdle
    /\ QuestIdle
    /\ \E t \in SendTables :
          deliv = [rows |-> t,
                   procs |-> [p \in Senders |-> IdleSender],
                   posted |-> [id \in SendIds |-> 0]]

\* send_to_wb up to its loop: the SELECT of the generated rows
SendStart(p) ==
    /\ deliv.procs[p].pc = "idle"
    /\ LET q == RowsWith(deliv.rows, "generated", 1) IN
       deliv' = [deliv EXCEPT !.procs[p] =
                    [pc |-> IF q = <<>> THEN "done" ELSE "item",
                     queue |-> q, qi |-> 1, ok |-> FALSE]]
    /\ UNCHANGED <<pipeVars, simVars, adapterVars, runVars, rateVars, toolVars, sessVars, procVars, pureVars, catVars, questVars, workVars>>

\* the process goes to the next row of its result, or leaves the loop
SenderOn(proc) ==
    [proc EXCEPT !.qi = @ + 1,
                 !.pc = IF proc.qi = Len(proc.queue) THEN "done" ELSE "item"]

\* the loop body up to the return of client.send_feedback_answer, on
\* the row as the SELECT gave it; a blank answer is committed as failed
\* with no POST
SendPost(p) ==
    /\ deliv.procs[p].pc = "item"
    /\ LET proc == deliv.procs[p]
           n == proc.queue[proc.qi]
           fb == deliv.rows[n] IN
       IF BlankAnswer(fb)
       THEN deliv' = [deliv EXCEPT !.rows[n].status = "failed",
                                   !.procs[p] = SenderOn(proc)]
       ELSE /\ deliv.posted[fb.wb_id] < MaxPosts
            /\ \E ok \in BOOLEAN :
                  deliv' = [deliv EXCEPT !.posted[fb.wb_id] = @ + 1,
                                         !.procs[p].pc = "posted",
                                         !.procs[p].ok = ok]
    /\ UNCHANGED <<pipeVars, simVars, adapterVars, runVars, rateVars, toolVars, sessVars, procVars, pureVars, catVars, questVars, workVars>>

\* fb.status = Status.sent, or Status.failed in the except branch, and
\* session.commit()
SendCommit(p) ==
    /\ deliv.procs[p].pc = "posted"
    /\ LET proc == deliv.procs[p]
           n == proc.queue[proc.qi] IN
       deliv' = [deliv EXCEPT
                    !.rows[n].status = IF proc.ok THEN "sent" ELSE "failed",
                    !.procs[p] = SenderOn(proc)]
    /\ UNCHANGED <<pipeVars, simVars, adapterVars, runVars, rateVars, toolVars, sessVars, procVars, pureVars, catVars, questVars, workVars>>

\* the process is stopped after the POST and before the commit
SendKill(p) ==
    /\ deliv.procs[p].pc = "posted"
    /\ deliv' = [deliv EXCEPT !.procs[p].pc = "done"]
    /\ UNCHANGED <<pipeVars, simVars, adapterVars, runVars, rateVars, toolVars, sessVars, procVars, pureVars, catVars, questVars, workVars>>

\* the process is over; the command may be started again
SendEnds(p) ==
    /\ deliv.procs[p].pc = "done"
    /\ deliv' = [deliv EXCEPT !.procs[p] = IdleSender]
    /\ UNCHANGED <<pipeVars, simVars, adapterVars, runVars, rateVars, toolVars, sessVars, procVars, pureVars, catVars, questVars, workVars>>

NextDeliver ==
    \/ \E p \in Senders : SendStart(p)
    \/ \E p \in Senders : SendPost(p)
    \/ \E p \in Senders : SendCommit(p)
    \/ \E p \in Senders : SendKill(p)
    \/ \E p \in Senders : SendEnds(p)

SpecDeliver == InitDeliver /\ [][NextDeliver]_vars

\* C37: the marketplace receives at most one answer POST for a wb_id,
\* whatever the interleaving of the delivery passes
C37_SubmittedAtMostOnce ==
    \A id \in DOMAIN deliv.posted : deliv.posted[id] <= 1

\* C38: a load_available that is left by an exception leaves the cache
\* unset, and whenever the id -> title map is cached the similarity matrix
\* similar_titles works on is built
C38_CacheAllOrNothing ==
    /\ cat_ret.how \notin {"none", "returned"} => IsNone(catalog.cache)
    /\ ~IsNone(catalog.cache) => catalog.matrix = "built"

\* C39: when an ingestion pass is over the count it returned is the number
\* of rows it committed, and a pass that an exception ended, which returns
\* no count, has committed none
C39_IngestCountExact ==
    (op \in {"ingest", "archive"} /\ pc = "done") =>
        IF ret.how = "returned"
        THEN ret.val = Len(store) - Len(store0)
        ELSE Len(store) = Len(store0)

====
